---------------------------- MODULE Spec2Model ----------------------------
(***************************************************************************)
(* A model of the device protocol layer of ouvrt: the Vive IMU sample      *)
(* reconciler and timestamp unwrapper (vive-imu.c), the Rift start         *)
(* sequence and poll loop (rift.c), the Vive controller poll loop          *)
(* (vive-controller-usb.c) and the Rift radio router (rift-radio.c).       *)
(*                                                                         *)
(* Each component has a specification of its own over the shared           *)
(* variables; the variables of the other components stay at their initial  *)
(* values.                                                                 *)
(***************************************************************************)
EXTENDS Integers, Sequences, FiniteSets, TLC

VARIABLES
    \* ---- struct vive_imu and the ghost record of one decode -------------
    imu,            \* [sequence, time]: imu->sequence (uint8_t), imu->time (64 bit)
    report,         \* the three sample slots of the report decoded last
    entry_seq,      \* imu->sequence when the last decode was entered
    entry_time,     \* imu->time when the last decode was entered
    delivered,      \* the samples the last decode handled as new, in order
    decoded,        \* whether a report has been decoded yet
    produced,       \* samples the device has produced so far (ghost)
    prev_max_n,     \* highest production index handled before the last decode
    \* ---- OuvrtRift: rift_start ------------------------------------------
    fd_open,        \* rift->dev.fd != -1
    start_pc,       \* where rift_start is
    start_log,      \* the steps rift_start has entered, in order (ghost)
    loop_i,         \* i of the table loop being run
    loop_num,       \* num of the table being read, -1 before its first report
    reads,          \* feature reports read by the table loop run last (ghost)
    leds,           \* rift->leds and rift->imu.position
    pos_last,       \* the position report handled last: the count declared
                    \* by the first report, its index and type, the reads
                    \* rift_get_positions has issued, and how it went on
                    \* (ghost)
    led_last,       \* the LED pattern record handled last, the num of its
                    \* table and rift->leds before it was handled (ghost)
    priv,           \* rift->priv: report_rate, report_interval, flicker,
                    \* last_sample_timestamp
    hmd,            \* what the headset was last told: packet_interval,
                    \* tracking, display
    registered,     \* the LEDs are registered with the tracker
    \* ---- the poll loops: rift_thread, vive_controller_usb_thread ----------
    session,        \* which session's loop runs: "rift", "vive" or "none"
    dev_active,     \* dev->active
    stopped,        \* the owner has cleared dev->active (ghost)
    thr_pc,         \* where the loop is: check, poll, range, read, done
    rd_fd,          \* the transport the next read is on
    fds,            \* struct pollfd of each transport: events, revents
    poll_ret,       \* what the last poll returned (2: not polled yet)
    ka_sent,        \* the last poll was followed by a keepalive (ghost)
    count,          \* count of rift_thread
    bad_since_ka,   \* reports read but not counted since the last keepalive
                    \* (ghost, saturating)
    last_read,      \* the report read last, whether it was decoded, the
                    \* session state before the read, and the transports
                    \* read in this iteration, in order (ghost)
    polls_after_stop, \* polls begun with dev->active cleared by the owner
                    \* (ghost, saturating)
    imu_range,      \* imu->gyro_range, imu->accel_range
    buttons,        \* self->buttons of the Vive controller
    sensor_out,     \* samples rift_decode_sensor_message handed on in this
                    \* iteration: how many, and their time (ghost)
    pulses_out,     \* the pulse report decoded in this iteration and the
                    \* sensor ids handed to the Lighthouse watchman (ghost)
    button_calls,   \* the calls of ouvrt_handle_buttons in this iteration
                    \* (ghost)
    button_report,  \* the button report decoded last in this iteration
                    \* (ghost)
    \* ---- the radio router: rift_decode_radio_message ---------------------
    radio,          \* struct rift_radio: the remote and the two touch
                    \* controllers
    radio_pc,       \* where the router is: idle, send, busy, data
    radio_query,    \* the query under way: for which touch controller,
                    \* whether for the serial number or the firmware version,
                    \* and how often its transfer has read a control report
                    \* with the busy bit set (ghost)
    radio_msg,      \* the message whose payload waits for the activation
    radio_trace,    \* the message handled last: its target, whether the
                    \* target was active, and what was done for it (ghost)
    \* ---- vive_controller_usb_start ----------------------------------------
    vive_start_pc,  \* where vive_controller_usb_start is: idle, config,
                    \* returned
    vive_firmware,  \* how vive_get_firmware_version ended: none, ok, EPIPE,
                    \* EIO
    vive_config,    \* how vive_controller_usb_get_config ended: none, ok,
                    \* no_data, bad_json
    vive_start_ret, \* what vive_controller_usb_start returned: ok for 0,
                    \* error for a negative value, none before it returns
    \* ---- the Rift sessions of one process, and what they share -----------
    rift_flicker,   \* the global rift_flicker
    rifts,          \* for each Rift session: priv->flicker, dev.active, and
                    \* the blinking its headset was told last
    flicker_writer  \* the session that wrote rift_flicker last, 0 for none
                    \* (ghost)

imuVars == <<imu, report, entry_seq, entry_time, delivered, decoded,
             produced, prev_max_n>>

startVars == <<fd_open, start_pc, start_log, loop_i, loop_num, reads, leds,
               pos_last, led_last, priv, hmd, registered>>

pollVars == <<session, dev_active, stopped, thr_pc, rd_fd, fds, poll_ret,
              ka_sent, count, bad_since_ka, last_read, polls_after_stop,
              imu_range, buttons, sensor_out, pulses_out, button_calls,
                   button_report>>

radioVars == <<radio, radio_pc, radio_query, radio_msg, radio_trace>>

viveStartVars == <<vive_start_pc, vive_firmware, vive_config, vive_start_ret>>

flickerVars == <<rift_flicker, rifts, flicker_writer>>

vars == <<imuVars, startVars, pollVars, radioVars, viveStartVars, flickerVars>>

-----------------------------------------------------------------------------
(***************************************************************************)
(* Fixed-width integers.  A uint8_t is a number in 0..255.  A uint32_t is  *)
(* a pair <<high half, low half>> of 16-bit halves, because the values of  *)
(* a 32-bit counter do not fit the model checker's integers.  The 64-bit  *)
(* time base is [hi, lo]: its upper 32 bits as a number and its lower 32   *)
(* bits as a uint32_t.                                                     *)
(***************************************************************************)
U8 == 256

U16 == 65536

\* (uint8_t)(x + k)
AddU8(x, k) == (x + k) % U8

\* (uint8_t)(x - k)
SubU8(x, k) == (x + U8 - k) % U8

Zero32 == <<0, 0>>

\* (uint32_t)(a + k) for k below 65536
Add32(a, k) ==
    <<(a[1] + ((a[2] + k) \div U16)) % U16, (a[2] + k) % U16>>

\* a < b on uint32_t
Lt32(a, b) == a[1] < b[1] \/ (a[1] = b[1] /\ a[2] < b[2])

Le32(a, b) == a = b \/ Lt32(a, b)

\* a <= b on the 64-bit time base
Le64(a, b) == a.hi < b.hi \/ (a.hi = b.hi /\ Le32(a.lo, b.lo))

Time0 == [hi |-> 0, lo |-> Zero32]

-----------------------------------------------------------------------------
(***************************************************************************)
(* vive-imu.c                                                              *)
(***************************************************************************)

\* oldest_sequence_index(a, b, c)
oldest_sequence_index_slot0(a, b, c) == 0

oldest_sequence_index(a, b, c) ==
    IF a = AddU8(b, 2) THEN 1
    ELSE IF b = AddU8(c, 2) THEN 2
    ELSE 0

\* The "already seen" test of the decode loop, against the sequence number
\* the session held when the decode was entered.
AlreadySeenOnlyLast(seq, last_seq) == seq = last_seq

AlreadySeen(seq, last_seq) ==
    \/ seq = last_seq
    \/ seq = SubU8(last_seq, 1)
    \/ seq = SubU8(last_seq, 2)

\* imu->time & ~0xffffffff.  The constant 0xffffffff has type unsigned int,
\* so ~0xffffffff is the unsigned int 0; widened to 64 bits it is still 0,
\* and the conjunction clears the upper 32 bits along with the lower ones.
TimeBase(time) == [hi |-> 0, lo |-> Zero32]

\* The time the decode loop computes for a sample with 32-bit tick t.
UnwrapTime(time, t) ==
    LET base == TimeBase(time)
        hi   == IF Lt32(t, time.lo) THEN base.hi + 1 ELSE base.hi
    IN  [hi |-> hi, lo |-> t]

\* The loop of vive_imu_decode_message: j counts the three slots down, i
\* walks the slots from the oldest.  st is [sequence, time, out].
RECURSIVE DecodeLoop(_, _, _, _, _)
DecodeLoop(st, rep, last_seq, i, j) ==
    IF j = 0 THEN st
    ELSE LET sample == rep[i + 1]
             next   == IF AlreadySeen(sample.seq, last_seq)
                       THEN st
                       ELSE [sequence |-> sample.seq,
                             time     |-> UnwrapTime(st.time, sample.time),
                             out      |-> Append(st.out,
                                 [seq |-> sample.seq, time |-> sample.time,
                                  n |-> sample.n,
                                  raw_time |-> UnwrapTime(st.time, sample.time)])]
         IN  DecodeLoop(next, rep, last_seq, (i + 1) % 3, j - 1)

\* vive_imu_decode_message(imu, buf, len) on a report with slots rep.
vive_imu_decode_message(im, rep) ==
    DecodeLoop([sequence |-> im.sequence, time |-> im.time, out |-> <<>>],
               rep, im.sequence,
               oldest_sequence_index(rep[1].seq, rep[2].seq, rep[3].seq), 3)

\* The decode as a step of the session.
DecodeReport(rep) ==
    LET r == vive_imu_decode_message(imu, rep)
    IN  /\ imu' = [sequence |-> r.sequence, time |-> r.time]
        /\ report' = rep
        /\ entry_seq' = imu.sequence
        /\ entry_time' = imu.time
        /\ delivered' = r.out
        /\ decoded' = TRUE

\* A sample slot: sequence number, 32-bit tick, and (ghost) the index of the
\* sample in the order the device produced it.
Slot(seq, t, n) == [seq |-> seq, time |-> t, n |-> n]

NoReport == <<Slot(0, Zero32, 0), Slot(0, Zero32, 0), Slot(0, Zero32, 0)>>

\* The device writes sample n to slot n mod 3 with sequence number n mod 256;
\* a report is a snapshot of the three samples produced last.
TickOf(n) == <<0, n % U16>>

Snapshot(n) ==
    [k \in 1..3 |->
        LET m == CHOOSE x \in (n - 2)..n : x % 3 = k - 1
        IN  Slot(m % U8, TickOf(m), m)]

\* The round-robin overwrite: the device stores sample n, with tick t, in
\* slot n mod 3.
Overwrite(rep, n, t) == [rep EXCEPT ![(n % 3) + 1] = Slot(n % U8, t, n)]

\* Highest production index among the samples of out, or m if there is none.
RECURSIVE MaxIndex(_, _)
MaxIndex(m, out) ==
    IF out = <<>> THEN m
    ELSE MaxIndex(IF Head(out).n > m THEN Head(out).n ELSE m, Tail(out))

ImuFresh ==
    /\ imu = [sequence |-> 0, time |-> Time0]
    /\ report = NoReport
    /\ entry_seq = 0
    /\ entry_time = Time0
    /\ delivered = <<>>
    /\ decoded = FALSE
    /\ produced = 0
    /\ prev_max_n = -1

-----------------------------------------------------------------------------
(***************************************************************************)
(* rift.c: the start sequence.  Every feature report the headset returns   *)
(* is an input; a step of the model is one exchange with the headset and   *)
(* what rift_start does with it up to the next exchange.                   *)
(***************************************************************************)

\* Capacities of the LED tables.  leds.h, which defines them, is not among
\* the sources at hand; the model uses small tables.
MAX_POSITIONS == 2

MAX_LEDS == 2

\* Bitwise operators on natural numbers.
RECURSIVE BitAnd(_, _)
BitAnd(a, b) ==
    IF a = 0 \/ b = 0 THEN 0
    ELSE (a % 2) * (b % 2) + 2 * BitAnd(a \div 2, b \div 2)

RECURSIVE BitOr(_, _)
BitOr(a, b) ==
    IF a = 0 THEN b
    ELSE IF b = 0 THEN a
    ELSE (IF a % 2 = 1 \/ b % 2 = 1 THEN 1 ELSE 0)
         + 2 * BitOr(a \div 2, b \div 2)

\* The 32-bit pattern word of an LED pattern report is [hi, lo]: its bits
\* 31..20 (a number below 4096) and its bits 19..0 (below 1048576).

\* (pattern & ~0xaaaaa) == 0x55555.  ~0xaaaaa is 0xfff55555: bits 31..20 must
\* be clear and the low bit of each of the ten 2-bit values must be set.
PatternCheckLowOnly(pattern) == BitAnd(pattern.lo, 349525) = 349525

PatternCheck(pattern) ==
    /\ BitAnd(pattern.hi, 4095) = 0
    /\ BitAnd(pattern.lo, 349525) = 349525

\* The conversion into 10 single-bit values, on the low 20 bits (pattern &=
\* 0xaaaaa clears the rest):
\*   &= 0xaaaaa; |= >> 1; &= 0x66666; |= >> 2; &= 0xe1e1e; |= >> 4;
\*   &= 0xe01fe; |= >> 8; (>> 1) & 0x3ff
ConvertPatternNoFinalShift(lo) ==
    LET p1 == BitAnd(lo, 699050)
        p2 == BitAnd(BitOr(p1, p1 \div 2), 419430)
        p3 == BitAnd(BitOr(p2, p2 \div 4), 925214)
        p4 == BitAnd(BitOr(p3, p3 \div 16), 918014)
        p5 == BitOr(p4, p4 \div 256)
    IN  BitAnd(p5, 1023)

ConvertPattern(lo) ==
    LET p1 == BitAnd(lo, 699050)
        p2 == BitAnd(BitOr(p1, p1 \div 2), 419430)
        p3 == BitAnd(BitOr(p2, p2 \div 4), 925214)
        p4 == BitAnd(BitOr(p3, p3 \div 16), 918014)
        p5 == BitOr(p4, p4 \div 256)
    IN  BitAnd(p5 \div 2, 1023)

NoLeds ==
    [num         |-> 0,
     patterns    |-> [i \in 0..(MAX_LEDS - 1) |-> 0],
     pat_written |-> {},
     pos_written |-> {},
     imu_pos     |-> FALSE]

NoPosRecord ==
    [num |-> -1, index |-> 0, type |-> 0, reads |-> 0, ret |-> "none"]

NoLedRecord ==
    [rec    |-> [index |-> 0, pattern_length |-> 0,
                 pattern |-> [hi |-> 0, lo |-> 0]],
     num    |-> 0,
     before |-> NoLeds,
     seen   |-> FALSE]

\* ouvrt_rift_init, and a device not opened yet.
StartIdle ==
    /\ fd_open = FALSE
    /\ start_pc = "idle"
    /\ start_log = <<>>
    /\ loop_i = 0
    /\ loop_num = -1
    /\ reads = 0
    /\ leds = NoLeds
    /\ pos_last = NoPosRecord
    /\ led_last = NoLedRecord
    /\ priv = [report_rate |-> 0, report_interval |-> 0, flicker |-> FALSE,
               last_sample_timestamp |-> Zero32]
    /\ hmd = [packet_interval |-> -1, sample_rate |-> -1, tracking |-> FALSE,
              display |-> FALSE]
    /\ registered = FALSE

\* rift_start returns an error: the locals of the function it was in are gone.
StartFails ==
    /\ start_pc' = "failed"
    /\ loop_i' = 0
    /\ loop_num' = -1

\* rift_start, lines 482-490: open the device node.
rift_start_open ==
    /\ start_pc = "idle"
    /\ start_log' = Append(start_log, "open")
    /\ \/ /\ fd_open' = TRUE
          /\ start_pc' = "positions"
          /\ UNCHANGED <<loop_i, loop_num>>
       \/ /\ StartFails
          /\ UNCHANGED fd_open
    /\ UNCHANGED <<reads, leds, pos_last, led_last, priv, hmd, registered>>
    /\ UNCHANGED <<imuVars, pollVars, radioVars, viveStartVars, flickerVars>>

\* rift_get_positions: one feature report read, and the loop body on it.
PositionReports ==
    [num : 0..(MAX_POSITIONS + 1), index : 0..MAX_POSITIONS, type : 0..2]

\* rift_get_positions without the check of the declared count.
PositionRejectedNoCapacity(first, num, index) ==
    index >= num

\* rift_get_positions, lines 132-138: the declared count of the first report
\* against the capacity, and every index against the declared count.
PositionRejected(first, num, index) ==
    \/ first /\ num > MAX_POSITIONS
    \/ index >= num

rift_get_positions ==
    /\ start_pc = "positions"
    /\ reads' = IF loop_num = -1 THEN 1 ELSE reads + 1
    /\ start_log' = IF loop_num = -1 THEN Append(start_log, "positions")
                    ELSE start_log
    /\ \/ /\ StartFails                      \* hid_get_feature_report < 0
          /\ pos_last' = [pos_last EXCEPT !.reads = reads',
                                          !.ret = "read_failed"]
          /\ UNCHANGED leds
       \/ \E r \in PositionReports :
            LET num == IF loop_num = -1 THEN r.num ELSE loop_num
                rec == [num |-> num, index |-> r.index, type |-> r.type,
                        reads |-> reads', ret |-> "none"]
            IN  IF PositionRejected(loop_num = -1, num, r.index)
                THEN /\ StartFails
                     /\ pos_last' = [rec EXCEPT !.ret = "rejected"]
                     /\ UNCHANGED leds
                ELSE /\ leds' = [leds EXCEPT
                            !.pos_written = IF r.type = 0 THEN @ \cup {r.index}
                                            ELSE @,
                            !.imu_pos = @ \/ r.type = 1,
                            !.num = IF loop_i + 1 = num THEN num - 1 ELSE @]
                     /\ IF loop_i + 1 = num
                        THEN /\ start_pc' = "patterns"
                             /\ loop_i' = 0
                             /\ loop_num' = -1
                             /\ pos_last' = [rec EXCEPT !.ret = "done"]
                        ELSE /\ start_pc' = "positions"
                             /\ loop_i' = loop_i + 1
                             /\ loop_num' = num
                             /\ pos_last' = [rec EXCEPT !.ret = "more"]
    /\ UNCHANGED <<fd_open, led_last, priv, hmd, registered>>
    /\ UNCHANGED <<imuVars, pollVars, radioVars, viveStartVars, flickerVars>>

\* rift_get_led_patterns: one feature report read, and the loop body on it.
\* The reports the headset may return are the set S.
LedRecordStep(r) ==
    LET num == IF loop_num = -1 THEN r.num ELSE loop_num
    IN  /\ led_last' = [rec    |-> [index |-> r.index,
                                    pattern_length |-> r.pattern_length,
                                    pattern |-> r.pattern],
                         num    |-> num,
                         before |-> leds,
                         seen   |-> TRUE]
        /\ IF \/ (loop_num = -1 /\ num > MAX_LEDS)
              \/ r.index >= num
              \/ r.pattern_length # 10
              \/ ~PatternCheck(r.pattern)
           THEN /\ StartFails
                /\ UNCHANGED leds
           ELSE /\ leds' = [leds EXCEPT
                       !.patterns[r.index] = ConvertPattern(r.pattern.lo),
                       !.pat_written = @ \cup {r.index}]
                /\ IF loop_i + 1 = num
                   THEN /\ start_pc' = "config"
                        /\ loop_i' = 0
                        /\ loop_num' = -1
                   ELSE /\ start_pc' = "patterns"
                        /\ loop_i' = loop_i + 1
                        /\ loop_num' = num

rift_get_led_patterns(First, Later) ==
    /\ start_pc = "patterns"
    /\ reads' = IF loop_num = -1 THEN 1 ELSE reads + 1
    /\ start_log' = IF loop_num = -1 THEN Append(start_log, "patterns")
                    ELSE start_log
    /\ \/ /\ StartFails                      \* hid_get_feature_report < 0
          /\ UNCHANGED <<leds, led_last>>
       \/ \E r \in (IF loop_num = -1 THEN First ELSE Later) : LedRecordStep(r)
    /\ UNCHANGED <<fd_open, pos_last, priv, hmd, registered>>
    /\ UNCHANGED <<imuVars, pollVars, radioVars, viveStartVars, flickerVars>>

\* The configuration reports the headset may return.
ConfigReports == [sample_rate : {0, 4, 1000, 65535}, packet_interval : {0, 1, 255}]

\* rift_get_config.  With report_rate 0 the division 1000000 / report_rate is
\* undefined: the build either traps (the process dies) or goes on with
\* whatever its divide instruction left, 0 on the machines that do not trap.
rift_get_config ==
    /\ start_pc = "config"
    /\ start_log' = Append(start_log, "config")
    /\ \/ /\ StartFails                      \* hid_get_feature_report < 0
          /\ UNCHANGED priv
       \/ \E r \in ConfigReports :
            LET report_rate == r.sample_rate \div (r.packet_interval + 1)
            IN  IF report_rate = 0
                THEN \/ /\ start_pc' = "crashed"
                        /\ priv' = [priv EXCEPT !.report_rate = 0]
                        /\ UNCHANGED <<loop_i, loop_num>>
                     \/ /\ start_pc' = "rate"
                        /\ priv' = [priv EXCEPT !.report_rate = 0,
                                                !.report_interval = 0]
                        /\ UNCHANGED <<loop_i, loop_num>>
                ELSE /\ start_pc' = "rate"
                     /\ priv' = [priv EXCEPT
                            !.report_rate = report_rate,
                            !.report_interval = 1000000 \div report_rate]
                     /\ UNCHANGED <<loop_i, loop_num>>
    /\ UNCHANGED <<fd_open, reads, leds, pos_last, led_last, hmd,
                   registered>>
    /\ UNCHANGED <<imuVars, pollVars, radioVars, viveStartVars, flickerVars>>

\* rift_set_report_rate(rift, requested): the rate stored and the
\* packet_interval (uint8_t) written for the sample rate the headset reports.
ClampedRate(requested, sample_rate) ==
    LET r == IF requested > sample_rate THEN sample_rate ELSE requested
    IN  IF r < 5 THEN 5 ELSE r

PacketInterval(requested, sample_rate) ==
    ((sample_rate \div ClampedRate(requested, sample_rate)) - 1 + U8) % U8

rift_set_report_rate(requested, pc_ok) ==
    \/ /\ StartFails                         \* hid_get_feature_report < 0
       /\ UNCHANGED <<priv, hmd>>
    \/ \E r \in ConfigReports :
         \/ /\ StartFails                    \* hid_send_feature_report < 0
            /\ UNCHANGED <<priv, hmd>>
         \/ /\ hmd' = [hmd EXCEPT
                    !.packet_interval =
                        PacketInterval(requested, r.sample_rate),
                    !.sample_rate = r.sample_rate]
            /\ priv' = [priv EXCEPT
                   !.report_rate = ClampedRate(requested, r.sample_rate),
                   !.report_interval =
                       1000000 \div ClampedRate(requested, r.sample_rate)]
            /\ start_pc' = pc_ok
            /\ UNCHANGED <<loop_i, loop_num>>

rift_start_set_report_rate ==
    /\ start_pc = "rate"
    /\ start_log' = Append(start_log, "rate")
    /\ rift_set_report_rate(500, "tracking")
    /\ UNCHANGED <<fd_open, reads, leds, pos_last, led_last, registered>>
    /\ UNCHANGED <<imuVars, pollVars, radioVars, viveStartVars, flickerVars>>

\* rift_send_tracking with its return value ignored by rift_start.
rift_send_tracking_ignored ==
    /\ start_pc = "tracking"
    /\ start_log' = Append(start_log, "tracking")
    /\ \/ hmd' = hmd
       \/ hmd' = [hmd EXCEPT !.tracking = TRUE]
    /\ start_pc' = "display"
    /\ UNCHANGED <<loop_i, loop_num>>
    /\ UNCHANGED <<fd_open, reads, leds, pos_last, led_last, priv,
                   registered>>
    /\ UNCHANGED <<imuVars, pollVars, radioVars, viveStartVars, flickerVars>>

\* rift_send_tracking(rift, TRUE)
rift_send_tracking ==
    /\ start_pc = "tracking"
    /\ start_log' = Append(start_log, "tracking")
    /\ \/ /\ StartFails                      \* hid_send_feature_report < 0
          /\ UNCHANGED hmd
       \/ /\ hmd' = [hmd EXCEPT !.tracking = TRUE]
          /\ start_pc' = "display"
          /\ UNCHANGED <<loop_i, loop_num>>
    /\ UNCHANGED <<fd_open, reads, leds, pos_last, led_last, priv,
                   registered>>
    /\ UNCHANGED <<imuVars, pollVars, radioVars, viveStartVars, flickerVars>>

\* rift_send_display(rift, TRUE, TRUE), then ouvrt_tracker_register_leds and
\* return 0.
rift_send_display ==
    /\ start_pc = "display"
    /\ \/ /\ StartFails                      \* hid_get_feature_report < 0
          /\ start_log' = Append(start_log, "display")
          /\ UNCHANGED <<hmd, registered>>
       \/ /\ StartFails                      \* hid_send_feature_report < 0
          /\ start_log' = Append(start_log, "display")
          /\ UNCHANGED <<hmd, registered>>
       \/ /\ hmd' = [hmd EXCEPT !.display = TRUE]
          /\ registered' = TRUE
          /\ start_log' = start_log \o <<"display", "register">>
          /\ start_pc' = "started"
          /\ UNCHANGED <<loop_i, loop_num>>
    /\ UNCHANGED <<fd_open, reads, leds, pos_last, led_last, priv>>
    /\ UNCHANGED <<imuVars, pollVars, radioVars, viveStartVars, flickerVars>>

-----------------------------------------------------------------------------
(***************************************************************************)
(* The poll loops: rift_thread (rift.c) and vive_controller_usb_thread     *)
(* (vive-controller-usb.c).  A loop blocks in poll, in read and in the     *)
(* feature report of the range modes; each of these calls is one step, and *)
(* the owner of the device may clear dev->active between any two steps.    *)
(***************************************************************************)

FatalFlags == {"POLLERR", "POLLHUP", "POLLNVAL"}

\* One struct pollfd as the loop sets it up: events = POLLIN.
PollFd(revents) == [events |-> {"POLLIN"}, revents |-> revents]

\* What the decoders may change in a session.
SessionState ==
    [imu |-> imu, imu_range |-> imu_range, buttons |-> buttons,
     last_sample_timestamp |-> priv.last_sample_timestamp, count |-> count]

NoRead ==
    [fd |-> 0, len |-> 0, id |-> "none", decoded |-> FALSE, seen |-> FALSE,
     order |-> <<>>,
     before |-> [imu |-> [sequence |-> 0, time |-> Time0],
                 imu_range |-> [gyro |-> 0, accel |-> 0], buttons |-> 0,
                 last_sample_timestamp |-> Zero32, count |-> 0]]

NotPolled == [seen |-> FALSE, ret |-> 0]

NoSensorOut == [n |-> 0, time |-> Zero32, declared |-> 0, slots |-> <<>>]

NoPulses == [report |-> <<>>, out |-> <<>>]

NoButtonReport == [battery |-> 0, buttons |-> 0]

\* No poll loop runs.
PollIdle ==
    /\ session = "none"
    /\ dev_active = FALSE
    /\ stopped = FALSE
    /\ thr_pc = "idle"
    /\ rd_fd = 0
    /\ fds = <<>>
    /\ poll_ret = NotPolled
    /\ ka_sent = FALSE
    /\ count = 0
    /\ bad_since_ka = 0
    /\ last_read = NoRead
    /\ polls_after_stop = 0
    /\ imu_range = [gyro |-> 0, accel |-> 0]
    /\ buttons = 0
    /\ sensor_out = NoSensorOut
    /\ pulses_out = NoPulses
    /\ button_calls = <<>>
    /\ button_report = NoButtonReport

\* The owner of the device clears dev->active.
DeviceStop ==
    /\ session # "none"
    /\ dev_active
    /\ thr_pc # "done"
    /\ dev_active' = FALSE
    /\ stopped' = TRUE
    /\ UNCHANGED <<session, thr_pc, rd_fd, fds, poll_ret, ka_sent, count,
                   bad_since_ka, last_read, polls_after_stop, imu_range,
                   buttons, sensor_out, pulses_out, button_calls,
                   button_report>>
    /\ UNCHANGED <<imuVars, startVars, radioVars, viveStartVars, flickerVars>>

\* while (dev->active), and the pollfd set up again: n transports.
LoopHead(n) ==
    /\ thr_pc = "check"
    /\ IF dev_active
       THEN /\ thr_pc' = "poll"
            /\ fds' = [k \in 1..n |-> PollFd({})]
       ELSE /\ thr_pc' = "done"
            /\ UNCHANGED fds
    /\ rd_fd' = 0
    /\ poll_ret' = NotPolled
    /\ ka_sent' = FALSE
    /\ last_read' = NoRead
    /\ sensor_out' = NoSensorOut
    /\ pulses_out' = NoPulses
    /\ button_calls' = <<>>
    /\ button_report' = NoButtonReport

\* What poll(fds, n, 1000) may return when each revents is drawn from R:
\* -1, or the number of transports with a nonzero revents (0: timeout).
PollOutcomes(n, R) ==
    {[ret |-> -1, revents |-> [k \in 1..n |-> {}]]} \cup
    {[ret |-> Cardinality({k \in 1..n : rv[k] # {}}), revents |-> rv] :
        rv \in [1..n -> R]}

\* A poll begun after the owner cleared dev->active.
CountPoll ==
    polls_after_stop' =
        IF stopped /\ polls_after_stop < 2 THEN polls_after_stop + 1
        ELSE polls_after_stop

\* Where the count of the reports that count does not count stops.
MaxBad == 2

\* One more report that count does not count.
CountBad ==
    bad_since_ka' = IF bad_since_ka < MaxBad THEN bad_since_ka + 1
                    ELSE bad_since_ka

(***************************** rift_thread *********************************)

rift_thread_check ==
    /\ session = "rift"
    /\ LoopHead(1)
    /\ UNCHANGED <<session, dev_active, stopped, count, bad_since_ka,
                   polls_after_stop, imu_range, buttons>>
    /\ UNCHANGED <<imuVars, startVars, radioVars, viveStartVars, flickerVars>>

\* Line 558: the test is on fds.events.
rift_thread_fatal(fd) == fd.events \cap FatalFlags # {}

\* Lines 548-559: poll, the keepalive, the test for a fatal condition.
rift_thread_poll(R) ==
    /\ session = "rift"
    /\ thr_pc = "poll"
    /\ \E o \in PollOutcomes(1, R) :
        /\ fds' = [k \in 1..1 |-> [fds[k] EXCEPT !.revents = o.revents[k]]]
        /\ poll_ret' = [seen |-> TRUE, ret |-> o.ret]
        /\ IF o.ret = -1 \/ o.ret = 0 \/ count > 9 * priv.report_rate
           THEN /\ ka_sent' = TRUE           \* rift_send_keepalive
                /\ count' = 0
                /\ bad_since_ka' = 0
                /\ thr_pc' = "check"
           ELSE /\ UNCHANGED <<ka_sent, count, bad_since_ka>>
                /\ thr_pc' = IF rift_thread_fatal(fds'[1]) THEN "done"
                             ELSE "read"
    /\ CountPoll
    /\ UNCHANGED <<session, dev_active, stopped, rd_fd, last_read, imu_range,
                   buttons, sensor_out, pulses_out, button_calls,
                   button_report>>
    /\ UNCHANGED <<imuVars, startVars, radioVars, viveStartVars, flickerVars>>

\* rift_decode_sensor_message on a 64-byte buffer: the timestamp is stored
\* and one or two samples are handed to debug_imu_fifo_in.
rift_decode_sensor_message(m) ==
    LET num_samples == IF m.num_samples > 1 THEN 2 ELSE 1
    IN  /\ priv' = [priv EXCEPT !.last_sample_timestamp = m.timestamp]
        /\ sensor_out' = [n |-> num_samples,
                          time |-> m.timestamp,
                          declared |-> m.num_samples,
                          slots |-> [i \in 1..num_samples |-> i - 1]]

\* Lines 561-573: read, and the decode of a report of 64 bytes.
rift_thread_read(Reports) ==
    /\ session = "rift"
    /\ thr_pc = "read"
    /\ \E r \in Reports :
        /\ last_read' = [fd |-> 0, len |-> r.len, id |-> r.id,
                         decoded |-> ~(r.len = -1 \/ r.len < 64),
                         seen |-> TRUE, order |-> <<0>>,
                         before |-> SessionState]
        /\ IF r.len = -1 \/ r.len < 64
           THEN /\ CountBad
                /\ UNCHANGED <<priv, sensor_out, count>>
           ELSE /\ rift_decode_sensor_message(r)
                /\ count' = count + 1
                /\ UNCHANGED bad_since_ka
    /\ thr_pc' = "check"
    /\ UNCHANGED <<session, dev_active, stopped, rd_fd, fds, poll_ret,
                   ka_sent, polls_after_stop, imu_range, buttons, pulses_out,
                   button_calls, button_report>>
    /\ UNCHANGED <<imuVars, fd_open, start_pc, start_log, loop_i, loop_num,
                   reads, leds, pos_last, led_last, hmd, registered,
                   viveStartVars, flickerVars>>
    /\ UNCHANGED <<radioVars, viveStartVars, flickerVars>>

(*********************** vive_controller_usb_thread ************************)

vive_thread_check ==
    /\ session = "vive"
    /\ LoopHead(3)
    /\ UNCHANGED <<session, dev_active, stopped, count, bad_since_ka,
                   polls_after_stop, imu_range, buttons>>
    /\ UNCHANGED <<imuVars, startVars, radioVars, viveStartVars, flickerVars>>

\* Lines 230-231: the test is on fds[0] and fds[1].
vive_thread_fatal(f) ==
    \/ f[1].revents \cap FatalFlags # {}
    \/ f[2].revents \cap FatalFlags # {}

\* A loop that waits again, after the third transport, without a look at
\* dev->active.
NextReadableSkipsCheck(f, k) ==
    LET ready == {j \in k..2 : "POLLIN" \in f[j + 1].revents}
    IN  IF ready = {} THEN [pc |-> "poll", fd |-> 0]
        ELSE [pc |-> "read",
              fd |-> CHOOSE j \in ready : \A i \in ready : j <= i]

\* The next transport, from k on, that the poll found readable; the loop
\* goes back to its head after the third.
NextReadable(f, k) ==
    LET ready == {j \in k..2 : "POLLIN" \in f[j + 1].revents}
    IN  IF ready = {} THEN [pc |-> "check", fd |-> 0]
        ELSE [pc |-> "read",
              fd |-> CHOOSE j \in ready : \A i \in ready : j <= i]

\* Lines 219-244: poll, the test for a fatal condition, and whether the
\* range modes are to be read.
vive_thread_poll(R) ==
    /\ session = "vive"
    /\ thr_pc = "poll"
    /\ \E o \in PollOutcomes(3, R) :
        /\ fds' = [k \in 1..3 |-> [fds[k] EXCEPT !.revents = o.revents[k]]]
        /\ poll_ret' = [seen |-> TRUE, ret |-> o.ret]
        /\ IF o.ret = -1 \/ o.ret = 0
           THEN /\ thr_pc' = "check"
                /\ UNCHANGED <<dev_active, rd_fd>>
           ELSE IF vive_thread_fatal(fds')
           THEN /\ dev_active' = FALSE
                /\ thr_pc' = "done"
                /\ UNCHANGED rd_fd
           ELSE IF imu_range.gyro = 0
           THEN /\ thr_pc' = "range"
                /\ UNCHANGED <<dev_active, rd_fd>>
           ELSE /\ thr_pc' = NextReadable(fds', 0).pc
                /\ rd_fd' = NextReadable(fds', 0).fd
                /\ UNCHANGED dev_active
    /\ CountPoll
    /\ UNCHANGED <<session, stopped, ka_sent, count, bad_since_ka, last_read,
                   imu_range, buttons, sensor_out, pulses_out, button_calls,
                   button_report>>
    /\ UNCHANGED <<imuVars, startVars, radioVars, viveStartVars, flickerVars>>

\* vive_imu_get_range_modes: one or two feature reports (ok1, r1; ok2, r2).
\* The ranges are kept in degrees per second and in g.
vive_imu_get_range_modes(ok1, r1, ok2, r2) ==
    LET again == r1.gyro_range = 0 \/ r1.accel_range = 0
        r == IF again THEN r2 ELSE r1
    IN  IF ~ok1 \/ (again /\ ~ok2) THEN [ret |-> -1, range |-> imu_range]
        ELSE IF r.gyro_range > 4 \/ r.accel_range > 4
        THEN [ret |-> -22, range |-> imu_range]
        ELSE [ret |-> 0, range |-> [gyro |-> 250 * (2 ^ r.gyro_range),
                                    accel |-> 2 * (2 ^ r.accel_range)]]

\* Lines 237-244.
vive_thread_range(RangeReports) ==
    /\ session = "vive"
    /\ thr_pc = "range"
    /\ \E ok1 \in BOOLEAN, ok2 \in BOOLEAN, r1 \in RangeReports,
          r2 \in RangeReports :
        LET res == vive_imu_get_range_modes(ok1, r1, ok2, r2)
        IN  /\ imu_range' = res.range
            /\ IF res.ret < 0
               THEN thr_pc' = "check" /\ UNCHANGED rd_fd
               ELSE /\ thr_pc' = NextReadable(fds, 0).pc
                    /\ rd_fd' = NextReadable(fds, 0).fd
    /\ UNCHANGED <<session, dev_active, stopped, fds, poll_ret, ka_sent,
                   count, bad_since_ka, last_read, polls_after_stop, buttons,
                   sensor_out, pulses_out, button_calls,
                   button_report>>
    /\ UNCHANGED <<imuVars, startVars, radioVars, viveStartVars, flickerVars>>

\* The length and the report ID the loop expects on each transport.
ExpectedLen(fd) == IF fd = 0 THEN 52 ELSE IF fd = 1 THEN 58 ELSE 64

ExpectedId(fd) ==
    IF fd = 0 THEN "VIVE_IMU_REPORT_ID"
    ELSE IF fd = 1 THEN "VIVE_CONTROLLER_LIGHTHOUSE_PULSE_REPORT_ID"
    ELSE "VIVE_CONTROLLER_BUTTON_REPORT_ID"

RECURSIVE PulseLoop(_, _, _)
\* vive_controller_decode_pulse_report: the sensor ids handed to
\* lighthouse_watchman_handle_pulse, slot i on.
PulseLoop(ids, i, out) ==
    IF i > 7 THEN out
    ELSE IF ids[i] = 65535 THEN PulseLoop(ids, i + 1, out)
    ELSE IF ids[i] > 31 THEN out
    ELSE PulseLoop(ids, i + 1, Append(out, ids[i]))

vive_controller_decode_pulse_report(ids) ==
    pulses_out' = [report |-> ids, out |-> PulseLoop(ids, 1, <<>>)]

\* A decode without the test for a battery reading: an all-zero button
\* field is a release of every button.
vive_controller_decode_button_message_no_battery(r) ==
    /\ button_report' = r
    /\ IF r.buttons # buttons
       THEN /\ button_calls' = Append(button_calls,
                                      [new |-> r.buttons, old |-> buttons])
            /\ buttons' = r.buttons
       ELSE UNCHANGED <<buttons, button_calls>>

\* A decode that hands every report to ouvrt_handle_buttons, the battery
\* reports and the unchanged ones included.
vive_controller_decode_button_message_always(r) ==
    /\ button_report' = r
    /\ button_calls' = Append(button_calls,
                              [new |-> r.buttons, old |-> buttons])
    /\ buttons' = r.buttons

\* vive_controller_decode_button_message.
vive_controller_decode_button_message(r) ==
    /\ button_report' = r
    /\ IF r.battery # 0 /\ r.buttons = 0
       THEN UNCHANGED <<buttons, button_calls>>
       ELSE IF r.buttons # buttons
       THEN /\ button_calls' = Append(button_calls,
                                      [new |-> r.buttons, old |-> buttons])
            /\ buttons' = r.buttons
       ELSE UNCHANGED <<buttons, button_calls>>

NoImuDecode ==
    UNCHANGED <<imu, report, entry_seq, entry_time, delivered, decoded>>

\* Lines 246-287: the read on transport rd_fd and the decode of its report.
vive_thread_read(Reports) ==
    /\ session = "vive"
    /\ thr_pc = "read"
    /\ \E r \in Reports[rd_fd] :
        LET valid == r.len = ExpectedLen(rd_fd) /\ r.id = ExpectedId(rd_fd)
        IN  /\ last_read' = [fd |-> rd_fd, len |-> r.len, id |-> r.id,
                             decoded |-> r.len # -1 /\ valid,
                             seen |-> TRUE,
                             order |-> Append(last_read.order, rd_fd),
                             before |-> SessionState]
            /\ IF r.len = -1
               THEN /\ thr_pc' = "check"
                    /\ rd_fd' = 0
                    /\ NoImuDecode
                    /\ UNCHANGED <<pulses_out, buttons, button_calls,
                                 button_report>>
               ELSE /\ thr_pc' = NextReadable(fds, rd_fd + 1).pc
                    /\ rd_fd' = NextReadable(fds, rd_fd + 1).fd
                    /\ IF valid /\ rd_fd = 0
                       THEN DecodeReport(r.payload)
                       ELSE NoImuDecode
                    /\ IF valid /\ rd_fd = 1
                       THEN vive_controller_decode_pulse_report(r.payload)
                       ELSE UNCHANGED pulses_out
                    /\ IF valid /\ rd_fd = 2
                       THEN vive_controller_decode_button_message(r.payload)
                       ELSE UNCHANGED <<buttons, button_calls,
                                        button_report>>
    /\ UNCHANGED <<session, dev_active, stopped, fds, poll_ret, ka_sent,
                   count, bad_since_ka, polls_after_stop, imu_range,
                   sensor_out>>
    /\ UNCHANGED <<produced, prev_max_n, startVars, radioVars, viveStartVars, flickerVars>>

-----------------------------------------------------------------------------
(***************************************************************************)
(* The radio router (rift-radio.c): rift_decode_radio_message, and the     *)
(* activation of a wireless device over the control channel.  Each feature *)
(* report sent or read on the control channel is one step.                 *)
(***************************************************************************)

Targets ==
    {"RIFT_REMOTE", "RIFT_TOUCH_CONTROLLER_LEFT",
     "RIFT_TOUCH_CONTROLLER_RIGHT"}

\* struct rift_wireless_device before its activation.
NoWireless ==
    [active |-> FALSE, serial |-> "", firmware_date |-> "",
     firmware_version |-> ""]

NoTouch ==
    [base |-> NoWireless, cap_a_x |-> 0, cap_b_y |-> 0, cap_rest |-> 0,
     cap_stick |-> 0, cap_trigger |-> 0]

NoMessage ==
    [id |-> "none", device_type |-> "none", rest_zero |-> TRUE,
     buttons |-> 0, adc_channel |-> "none", adc_value |-> 0]

NoQuery == [touch |-> 0, kind |-> "none", busy_reads |-> 0]

NoTrace ==
    [target |-> "none", was_active |-> FALSE, events |-> <<>>,
     msg |-> NoMessage]

\* rift_radio_init, on a structure that was allocated zeroed.
RadioIdle ==
    /\ radio = [remote |-> [base |-> NoWireless, buttons |-> 0],
                touch |-> [k \in 0..1 |-> NoTouch]]
    /\ radio_pc = "idle"
    /\ radio_query = NoQuery
    /\ radio_msg = NoMessage
    /\ radio_trace = NoTrace

\* rift_decode_remote_message
rift_decode_remote_message(remote, m) == [remote EXCEPT !.buttons = m.buttons]

\* rift_decode_touch_message: the capacitive sensor value of the channel the
\* message carries.
rift_decode_touch_message(touch, m) ==
    IF m.adc_channel = "RIFT_TOUCH_CONTROLLER_ADC_A_X"
    THEN [touch EXCEPT !.cap_a_x = m.adc_value]
    ELSE IF m.adc_channel = "RIFT_TOUCH_CONTROLLER_ADC_B_Y"
    THEN [touch EXCEPT !.cap_b_y = m.adc_value]
    ELSE IF m.adc_channel = "RIFT_TOUCH_CONTROLLER_ADC_REST"
    THEN [touch EXCEPT !.cap_rest = m.adc_value]
    ELSE IF m.adc_channel = "RIFT_TOUCH_CONTROLLER_ADC_STICK"
    THEN [touch EXCEPT !.cap_stick = m.adc_value]
    ELSE IF m.adc_channel = "RIFT_TOUCH_CONTROLLER_ADC_TRIGGER"
    THEN [touch EXCEPT !.cap_trigger = m.adc_value]
    ELSE touch

Event(e) == radio_trace' = [radio_trace EXCEPT !.events = Append(@, e)]

\* The message is done with: the touch controller k, as the activation left
\* it, decodes the payload, and rift_decode_radio_message returns.
TouchDecodes(k, touch, events) ==
    /\ radio' = [radio EXCEPT
                    !.touch[k] = rift_decode_touch_message(touch, radio_msg)]
    /\ radio_trace' = [radio_trace EXCEPT
                          !.events = @ \o events \o <<"decode">>]
    /\ radio_pc' = "idle"
    /\ radio_query' = NoQuery
    /\ radio_msg' = NoMessage

\* A router that takes every device type but the remote for a touch
\* controller.
rift_decode_radio_message_no_drop(Messages) ==
    /\ radio_pc = "idle"
    /\ \E m \in Messages :
        LET k == IF m.device_type = "RIFT_TOUCH_CONTROLLER_LEFT" THEN 0 ELSE 1
            trace(active, events) ==
                [target |-> IF m.id = "RIFT_RADIO_MESSAGE_ID"
                            THEN m.device_type ELSE "none",
                 was_active |-> active, events |-> events, msg |-> m]
        IN  IF m.id # "RIFT_RADIO_MESSAGE_ID"
            THEN /\ radio_trace' =
                        trace(FALSE, IF m.rest_zero THEN <<>>
                                     ELSE <<"unknown message">>)
                 /\ UNCHANGED <<radio, radio_pc, radio_query, radio_msg>>
            ELSE IF m.device_type = "RIFT_REMOTE"
            THEN /\ radio' = [radio EXCEPT !.remote =
                                rift_decode_remote_message(@, m)]
                 /\ radio_trace' = trace(radio.remote.base.active,
                                         <<"decode">>)
                 /\ UNCHANGED <<radio_pc, radio_query, radio_msg>>
            ELSE IF m.device_type # "RIFT_REMOTE"
            THEN IF radio.touch[k].base.active
                 THEN /\ radio' = [radio EXCEPT !.touch[k] =
                                      rift_decode_touch_message(@, m)]
                      /\ radio_trace' = trace(TRUE, <<"decode">>)
                      /\ UNCHANGED <<radio_pc, radio_query, radio_msg>>
                 ELSE /\ radio_pc' = "send"  \* rift_radio_get_serial
                      /\ radio_query' = [touch |-> k, kind |-> "serial",
                                         busy_reads |-> 0]
                      /\ radio_msg' = m
                      /\ radio_trace' = trace(FALSE, <<"serial">>)
                      /\ UNCHANGED radio
            ELSE /\ radio_trace' = trace(FALSE, <<"unknown device">>)
                 /\ UNCHANGED <<radio, radio_pc, radio_query, radio_msg>>
    /\ UNCHANGED <<imuVars, startVars, pollVars, viveStartVars, flickerVars>>

\* rift_decode_radio_message, up to the first feature report it sends.
rift_decode_radio_message(Messages) ==
    /\ radio_pc = "idle"
    /\ \E m \in Messages :
        LET k == IF m.device_type = "RIFT_TOUCH_CONTROLLER_LEFT" THEN 0 ELSE 1
            trace(active, events) ==
                [target |-> IF m.id = "RIFT_RADIO_MESSAGE_ID"
                            THEN m.device_type ELSE "none",
                 was_active |-> active, events |-> events, msg |-> m]
        IN  IF m.id # "RIFT_RADIO_MESSAGE_ID"
            THEN /\ radio_trace' =
                        trace(FALSE, IF m.rest_zero THEN <<>>
                                     ELSE <<"unknown message">>)
                 /\ UNCHANGED <<radio, radio_pc, radio_query, radio_msg>>
            ELSE IF m.device_type = "RIFT_REMOTE"
            THEN /\ radio' = [radio EXCEPT !.remote =
                                rift_decode_remote_message(@, m)]
                 /\ radio_trace' = trace(radio.remote.base.active,
                                         <<"decode">>)
                 /\ UNCHANGED <<radio_pc, radio_query, radio_msg>>
            ELSE IF m.device_type \in {"RIFT_TOUCH_CONTROLLER_LEFT",
                                       "RIFT_TOUCH_CONTROLLER_RIGHT"}
            THEN IF radio.touch[k].base.active
                 THEN /\ radio' = [radio EXCEPT !.touch[k] =
                                      rift_decode_touch_message(@, m)]
                      /\ radio_trace' = trace(TRUE, <<"decode">>)
                      /\ UNCHANGED <<radio_pc, radio_query, radio_msg>>
                 ELSE /\ radio_pc' = "send"  \* rift_radio_get_serial
                      /\ radio_query' = [touch |-> k, kind |-> "serial",
                                         busy_reads |-> 0]
                      /\ radio_msg' = m
                      /\ radio_trace' = trace(FALSE, <<"serial">>)
                      /\ UNCHANGED radio
            ELSE /\ radio_trace' = trace(FALSE, <<"unknown device">>)
                 /\ UNCHANGED <<radio, radio_pc, radio_query, radio_msg>>
    /\ UNCHANGED <<imuVars, startVars, pollVars, viveStartVars, flickerVars>>

\* An activation that fails and marks the device active all the same.
ActivationFailsMarksActive ==
    TouchDecodes(radio_query.touch,
                 [radio.touch[radio_query.touch] EXCEPT !.base.active = TRUE],
                 <<radio_query.kind \o " failed">>)

\* A query returns an error: rift_radio_activate returns it, the device
\* stays as it was, and the payload is decoded.
ActivationFails ==
    TouchDecodes(radio_query.touch, radio.touch[radio_query.touch],
                 <<radio_query.kind \o " failed">>)

\* rift_radio_transfer, lines 32-34: the control report is sent.
rift_radio_transfer_send ==
    /\ radio_pc = "send"
    /\ \/ ActivationFails                    \* hid_send_feature_report < 0
       \/ /\ radio_pc' = "busy"
          /\ UNCHANGED <<radio, radio_query, radio_msg, radio_trace>>
    /\ UNCHANGED <<imuVars, startVars, pollVars, viveStartVars, flickerVars>>

\* Where the count of the busy control reports of one transfer stops.
MaxBusy == 2

\* One more control report with the busy bit set.
CountBusy ==
    radio_query' = [radio_query EXCEPT
                       !.busy_reads = IF @ < MaxBusy THEN @ + 1 ELSE @]

\* rift_radio_transfer, lines 36-45: the control report is read back while
\* its busy bit (0x80) is set; the error bit (0x08) gives -EIO.
rift_radio_transfer_poll(Status) ==
    /\ radio_pc = "busy"
    /\ \/ ActivationFails                    \* hid_get_feature_report < 0
       \/ \E status \in Status :
            IF BitAnd(status, 128) # 0
            THEN /\ CountBusy
                 /\ UNCHANGED <<radio, radio_pc, radio_msg, radio_trace>>
            ELSE IF BitAnd(status, 8) # 0
            THEN ActivationFails
            ELSE /\ radio_pc' = "data"
                 /\ UNCHANGED <<radio, radio_query, radio_msg, radio_trace>>
    /\ UNCHANGED <<imuVars, startVars, pollVars, viveStartVars, flickerVars>>

\* An activation that is content with the serial number.
rift_radio_read_data_serial_only(Data) ==
    /\ radio_pc = "data"
    /\ \/ ActivationFails
       \/ \E d \in Data :
            LET k == radio_query.touch
            IN  TouchDecodes(k,
                    [radio.touch[k] EXCEPT !.base.serial = d.serial,
                                           !.base.active = TRUE],
                    <<>>)
    /\ UNCHANGED <<imuVars, startVars, pollVars, viveStartVars, flickerVars>>

\* rift_radio_read, line 60: the data report is read; then
\* rift_radio_get_serial or rift_radio_get_firmware_version copies it, and
\* rift_radio_activate goes on.
rift_radio_read_data(Data) ==
    /\ radio_pc = "data"
    /\ \/ ActivationFails                    \* hid_get_feature_report < 0
       \/ \E d \in Data :
            LET k == radio_query.touch
            IN  IF radio_query.kind = "serial"
                THEN /\ radio' = [radio EXCEPT
                                     !.touch[k].base.serial = d.serial]
                     /\ radio_query' = [radio_query EXCEPT
                                           !.kind = "firmware",
                                           !.busy_reads = 0]
                     /\ radio_pc' = "send"
                     /\ Event("firmware")
                     /\ UNCHANGED radio_msg
                ELSE TouchDecodes(k,
                        [radio.touch[k] EXCEPT
                            !.base.firmware_date = d.date,
                            !.base.firmware_version = d.version,
                            !.base.active = TRUE],
                        <<>>)
    /\ UNCHANGED <<imuVars, startVars, pollVars, viveStartVars, flickerVars>>

-----------------------------------------------------------------------------
(***************************************************************************)
(* vive_controller_usb_start (vive-controller-usb.c): the start of a Vive  *)
(* controller session, and the device framework acting on its result.      *)
(***************************************************************************)

\* ouvrt_vive_controller_usb_init, and start not called yet.
ViveStartIdle ==
    /\ vive_start_pc = "idle"
    /\ vive_firmware = "none"
    /\ vive_config = "none"
    /\ vive_start_ret = "none"

\* How vive_get_firmware_version may end: 0, or -1 with errno EPIPE or with
\* another errno.
FirmwareOutcomes == {"ok", "EPIPE", "EIO"}

\* How vive_controller_usb_get_config may end: 0, -1 because no
\* configuration was downloaded, -1 because it is not JSON.
ConfigOutcomes == {"ok", "no_data", "bad_json"}

\* vive_controller_usb_get_config: its return value.
vive_controller_usb_get_config(outcome) ==
    IF outcome = "ok" THEN 0 ELSE -1

\* vive_controller_usb_start, lines 181-190: the firmware version is read,
\* and start returns the error if errno is EPIPE.
vive_controller_usb_start_firmware ==
    /\ vive_start_pc = "idle"
    /\ \E f \in FirmwareOutcomes :
         /\ vive_firmware' = f
         /\ IF f = "EPIPE"
            THEN /\ vive_start_pc' = "returned"
                 /\ vive_start_ret' = "error"
            ELSE /\ vive_start_pc' = "config"
                 /\ UNCHANGED vive_start_ret
    /\ UNCHANGED vive_config
    /\ UNCHANGED <<imuVars, startVars, pollVars, radioVars, flickerVars>>

\* vive_controller_usb_start, lines 191-193: ret is assigned the result of
\* vive_controller_usb_get_config, and 0 is returned.
vive_controller_usb_start_config ==
    /\ vive_start_pc = "config"
    /\ \E c \in ConfigOutcomes :
         LET ret == vive_controller_usb_get_config(c)
         IN  /\ vive_config' = c
             /\ vive_start_ret' = "ok"
    /\ vive_start_pc' = "returned"
    /\ UNCHANGED vive_firmware
    /\ UNCHANGED <<imuVars, startVars, pollVars, radioVars, flickerVars>>

\* The device framework after start returned 0 (ok): the session is active and
\* its thread runs vive_controller_usb_thread.
ouvrt_device_start ==
    /\ vive_start_pc = "returned"
    /\ vive_start_ret = "ok"
    /\ session = "none"
    /\ session' = "vive"
    /\ dev_active' = TRUE
    /\ thr_pc' = "check"
    /\ UNCHANGED <<stopped, rd_fd, fds, poll_ret, ka_sent, count,
                   bad_since_ka, last_read, polls_after_stop, imu_range,
                   buttons, sensor_out, pulses_out, button_calls,
                   button_report>>
    /\ UNCHANGED <<imuVars, startVars, radioVars, viveStartVars, flickerVars>>

-----------------------------------------------------------------------------
(***************************************************************************)
(* Two Rift sessions in one process (rift.c): ouvrt_rift_set_flicker on    *)
(* either of them, and the owner switching them active and inactive.       *)
(***************************************************************************)
Rifts == {1, 2}

\* ouvrt_rift_init for every session, and the initializer of the global.
FlickerIdle ==
    /\ rift_flicker = FALSE
    /\ rifts = [s \in Rifts |->
                   [flicker |-> FALSE, active |-> FALSE, blink |-> "none"]]
    /\ flicker_writer = 0

\* The owner of session s sets or clears dev.active.
RiftSetActive ==
    /\ \E s \in Rifts :
         rifts' = [rifts EXCEPT ![s].active = ~@]
    /\ UNCHANGED <<rift_flicker, flicker_writer>>
    /\ UNCHANGED <<imuVars, startVars, pollVars, radioVars, viveStartVars>>

\* rift_send_tracking(rift, blink) on session s: the report reaches the
\* headset or hid_send_feature_report fails.
SendTracking(s, blink) ==
    {[rifts EXCEPT ![s].flicker = blink,
                   ![s].blink = IF blink THEN "on" ELSE "off"],
     [rifts EXCEPT ![s].flicker = blink]}

\* ouvrt_rift_set_flicker(rift, flicker) on session s.
ouvrt_rift_set_flicker ==
    /\ \E s \in Rifts, flicker \in BOOLEAN :
         IF rifts[s].flicker = flicker
         THEN UNCHANGED <<rifts, rift_flicker, flicker_writer>>
         ELSE /\ rift_flicker' = flicker
              /\ flicker_writer' = s
              /\ IF rifts[s].active
                 THEN rifts' \in SendTracking(s, flicker)
                 ELSE rifts' = [rifts EXCEPT ![s].flicker = flicker]
    /\ UNCHANGED <<imuVars, startVars, pollVars, radioVars, viveStartVars>>

-----------------------------------------------------------------------------
(***************************************************************************)
(* SpecReconcile: one decode of a report whose slots hold three            *)
(* consecutive sequence numbers in a round-robin rotation, by a session    *)
(* whose last sequence number is arbitrary.                                *)
(***************************************************************************)

\* Samples s, s+1, s+2 (mod 256); the oldest sits in slot rot.
Rotation(s, rot) ==
    [k \in 1..3 |->
        LET age == ((k - 1) + 3 - rot) % 3
        IN  Slot(AddU8(s, age), <<0, age>>, age)]

InitReconcile ==
    /\ StartIdle
    /\ PollIdle
    /\ RadioIdle
    /\ FlickerIdle
    /\ ViveStartIdle
    /\ imu \in [sequence : 0..(U8 - 1), time : {Time0}]
    /\ report = NoReport
    /\ entry_seq = 0
    /\ entry_time = Time0
    /\ delivered = <<>>
    /\ decoded = FALSE
    /\ produced = 0
    /\ prev_max_n = -1

ReconcileDecode ==
    /\ ~decoded
    /\ \E s \in 0..(U8 - 1), rot \in 0..2 : DecodeReport(Rotation(s, rot))
    /\ UNCHANGED <<produced, prev_max_n>>
    /\ UNCHANGED <<startVars, pollVars, radioVars, viveStartVars, flickerVars>>

NextReconcile == ReconcileDecode

SpecReconcile == InitReconcile /\ [][NextReconcile]_vars

-----------------------------------------------------------------------------
(***************************************************************************)
(* SpecReorder: decodes of a report whose slots hold three consecutive     *)
(* sequence numbers in any of the six assignments, by a session that has   *)
(* seen nothing newer than the report; the report is then decoded again.   *)
(***************************************************************************)

\* The assignments of the ages 0, 1, 2 to the three slots.
SlotAssignments ==
    {p \in [1..3 -> 0..2] : {p[1], p[2], p[3]} = {0, 1, 2}}

\* Samples s, s+1, s+2 (mod 256); slot k holds the sample of age p[k].
Assigned(s, p) == [k \in 1..3 |-> Slot(AddU8(s, p[k]), <<0, p[k]>>, p[k])]

\* The session has handled a sample newer than those of the report that
\* starts at s.
SessionAhead(s, last_seq) == last_seq \in {AddU8(s, 3), AddU8(s, 4)}

InitReorder == InitReconcile

ReorderDecode ==
    /\ ~decoded
    /\ \E s \in 0..(U8 - 1), p \in SlotAssignments :
         /\ ~SessionAhead(s, imu.sequence)
         /\ DecodeReport(Assigned(s, p))
    /\ UNCHANGED <<produced, prev_max_n>>
    /\ UNCHANGED <<startVars, pollVars, radioVars, viveStartVars, flickerVars>>

\* The same report is read and decoded once more.
ReorderDecodeAgain ==
    /\ decoded
    /\ DecodeReport(report)
    /\ UNCHANGED <<produced, prev_max_n>>
    /\ UNCHANGED <<startVars, pollVars, radioVars, viveStartVars, flickerVars>>

NextReorder ==
    \/ ReorderDecode
    \/ ReorderDecodeAgain

SpecReorder == InitReorder /\ [][NextReorder]_vars

-----------------------------------------------------------------------------
(***************************************************************************)
(* SpecFresh: the first decode of a Vive controller session as             *)
(* ouvrt_vive_controller_usb_init leaves it, on a report of a device whose *)
(* sequence counter stands anywhere.                                       *)
(***************************************************************************)
InitFresh ==
    /\ ImuFresh
    /\ StartIdle
    /\ PollIdle
    /\ RadioIdle
    /\ FlickerIdle
    /\ ViveStartIdle

FreshDecode ==
    /\ ~decoded
    /\ \E s \in 0..(U8 - 1), rot \in 0..2 : DecodeReport(Rotation(s, rot))
    /\ UNCHANGED <<produced, prev_max_n>>
    /\ UNCHANGED <<startVars, pollVars, radioVars, viveStartVars, flickerVars>>

NextFresh == FreshDecode

SpecFresh == InitFresh /\ [][NextFresh]_vars

-----------------------------------------------------------------------------
(***************************************************************************)
(* SpecStream: a session decoding snapshots of a device that keeps         *)
(* producing samples.  Between two reports the device produces d samples,  *)
(* d = 0 repeating the snapshot.                                           *)
(***************************************************************************)
MaxGap == 252

NearGap == 4

MaxProduced == 1300

Gaps == (0..NearGap) \cup ((MaxGap - NearGap)..MaxGap)

InitStream ==
    /\ StartIdle
    /\ PollIdle
    /\ RadioIdle
    /\ FlickerIdle
    /\ ViveStartIdle
    /\ imu = [sequence |-> 0, time |-> Time0]
    /\ report = NoReport
    /\ entry_seq = 0
    /\ entry_time = Time0
    /\ delivered = <<>>
    /\ decoded = FALSE
    /\ produced \in 2..(3 * U8 + 1)
    /\ prev_max_n = -1

StreamReport ==
    \E d \in Gaps :
        /\ UNCHANGED <<startVars, pollVars, radioVars, viveStartVars, flickerVars>>
        /\ produced + d <= MaxProduced
        /\ produced' = produced + d
        /\ DecodeReport(Snapshot(produced + d))
        /\ prev_max_n' = MaxIndex(prev_max_n, delivered)

NextStream == StreamReport

SpecStream == InitStream /\ [][NextStream]_vars

-----------------------------------------------------------------------------
(***************************************************************************)
(* SpecTime: a session decoding a report after every sample the device     *)
(* produces; the device's 32-bit tick of each new sample is arbitrary      *)
(* (a smaller tick than the one before means the counter wrapped).         *)
(***************************************************************************)
MaxSamples == 7

Ticks == {<<0, 0>>, <<0, 1>>, <<32768, 0>>, <<65535, 65535>>}

InitTime ==
    /\ StartIdle
    /\ PollIdle
    /\ RadioIdle
    /\ FlickerIdle
    /\ ViveStartIdle
    /\ imu = [sequence |-> 0, time |-> Time0]
    /\ report = Snapshot(2)
    /\ entry_seq = 0
    /\ entry_time = Time0
    /\ delivered = <<>>
    /\ decoded = FALSE
    /\ produced = 2
    /\ prev_max_n = -1

TimeSample ==
    \E t \in Ticks :
        /\ UNCHANGED <<startVars, pollVars, radioVars, viveStartVars, flickerVars>>
        /\ produced < MaxSamples
        /\ produced' = produced + 1
        /\ DecodeReport(Overwrite(report, produced + 1, t))
        /\ prev_max_n' = MaxIndex(prev_max_n, delivered)

NextTime == TimeSample

SpecTime == InitTime /\ [][NextTime]_vars

-----------------------------------------------------------------------------
(***************************************************************************)
(* The packed blink pattern format: ten 2-bit values, value i in bits      *)
(* 2i+1..2i, 1 for dark and 3 for bright.                                  *)
(***************************************************************************)

\* The 2-bit value i of the low 20 bits.
Symbol(lo, i) == (lo \div (4 ^ i)) % 4

SetSymbol(lo, i, v) == lo - Symbol(lo, i) * (4 ^ i) + v * (4 ^ i)

\* The packed form of the k-bit sequence p.
RECURSIVE PackPattern(_, _)
PackPattern(p, k) ==
    IF k = 0 THEN 0
    ELSE (IF p % 2 = 1 THEN 3 ELSE 1) + 4 * PackPattern(p \div 2, k - 1)

Packed(p) == [hi |-> 0, lo |-> PackPattern(p, 10)]

AllPacked == {Packed(p) : p \in 0..1023}

\* Packed words that break the format: one 2-bit value set to 0 or 2, or
\* one of the bits 31..20 set.
BrokenPacked ==
    {[hi |-> 0, lo |-> SetSymbol(PackPattern(677, 10), i, v)] :
        i \in 0..9, v \in {0, 2}}
    \cup {[hi |-> 2 ^ k, lo |-> PackPattern(677, 10)] : k \in 0..11}

\* A few of each kind for the specifications that run past the patterns.
SamplePacked ==
    {Packed(677), Packed(1023)}
    \cup {[hi |-> 0, lo |-> SetSymbol(PackPattern(677, 10), i, v)] :
            i \in {0, 9}, v \in {0, 2}}
    \cup {[hi |-> h, lo |-> PackPattern(677, 10)] : h \in {1, 2048}}

SampleLedReports ==
    [num : 0..(MAX_LEDS + 1), index : 0..MAX_LEDS,
     pattern_length : {9, 10, 11}, pattern : SamplePacked]

-----------------------------------------------------------------------------
(***************************************************************************)
(* SpecStart: rift_start from a fresh session to its return.               *)
(***************************************************************************)
InitStart ==
    /\ ImuFresh
    /\ StartIdle
    /\ PollIdle
    /\ RadioIdle
    /\ FlickerIdle
    /\ ViveStartIdle

NextStart ==
    \/ rift_start_open
    \/ rift_get_positions
    \/ rift_get_led_patterns(SampleLedReports, SampleLedReports)
    \/ rift_get_config
    \/ rift_start_set_report_rate
    \/ rift_send_tracking
    \/ rift_send_display

SpecStart == InitStart /\ [][NextStart]_vars

-----------------------------------------------------------------------------
(***************************************************************************)
(* SpecLedDecode: rift_get_led_patterns, entered after the position table  *)
(* was read, on every well-formed packed word (and the broken ones) as the *)
(* pattern of the first record.                                            *)
(***************************************************************************)
FirstLedReports ==
    [num : 1..MAX_LEDS, index : 0..(MAX_LEDS - 1),
     pattern_length : {10}, pattern : AllPacked \cup BrokenPacked]

LaterLedReports ==
    [num : {0}, index : 0..MAX_LEDS,
     pattern_length : {10, 11}, pattern : {Packed(0), Packed(677)}]

InitLedDecode ==
    /\ ImuFresh
    /\ PollIdle
    /\ RadioIdle
    /\ FlickerIdle
    /\ ViveStartIdle
    /\ fd_open = TRUE
    /\ start_pc = "patterns"
    /\ start_log = <<"open", "positions">>
    /\ loop_i = 0
    /\ loop_num = -1
    /\ reads = MAX_POSITIONS
    /\ leds = [NoLeds EXCEPT !.num = MAX_POSITIONS - 1,
                             !.pos_written = 0..(MAX_POSITIONS - 1)]
    /\ pos_last = [num |-> MAX_POSITIONS, index |-> MAX_POSITIONS - 1,
                   type |-> 0, reads |-> MAX_POSITIONS, ret |-> "done"]
    /\ led_last = NoLedRecord
    /\ priv = [report_rate |-> 0, report_interval |-> 0, flicker |-> FALSE,
               last_sample_timestamp |-> Zero32]
    /\ hmd = [packet_interval |-> -1, sample_rate |-> -1, tracking |-> FALSE,
              display |-> FALSE]
    /\ registered = FALSE

NextLedDecode == rift_get_led_patterns(FirstLedReports, LaterLedReports)

SpecLedDecode == InitLedDecode /\ [][NextLedDecode]_vars

-----------------------------------------------------------------------------
(***************************************************************************)
(* SpecPoll: the poll loop of one session, a Rift whose rift_start         *)
(* succeeded or a Vive controller, with an owner that may clear            *)
(* dev->active at any time.                                                *)
(***************************************************************************)

\* The sample rates of the headsets: rift_set_report_rate(500) leaves a
\* report rate of 5 for the first and of MaxRate for the second.
MaxRate == 6

SampleRates == {4, MaxRate}

\* The state rift_start leaves behind when it returns 0: a headset with no
\* LED position, one LED pattern record, and the given sample rate.
RiftStartedAt(sample_rate, timestamp) ==
    LET posd == [NoLeds EXCEPT !.imu_pos = TRUE]
    IN  /\ fd_open = TRUE
        /\ start_pc = "started"
        /\ start_log = <<"open", "positions", "patterns", "config", "rate",
                         "tracking", "display", "register">>
        /\ loop_i = 0
        /\ loop_num = -1
        /\ reads = 1
        /\ leds = [posd EXCEPT !.patterns[0] = 677, !.pat_written = {0}]
        /\ pos_last = [num |-> 1, index |-> 0, type |-> 1, reads |-> 1,
                       ret |-> "done"]
        /\ led_last = [rec |-> [index |-> 0, pattern_length |-> 10,
                                pattern |-> Packed(677)],
                       num |-> 1, before |-> posd, seen |-> TRUE]
        /\ priv = [report_rate |-> ClampedRate(500, sample_rate),
                   report_interval |->
                       1000000 \div ClampedRate(500, sample_rate),
                   flicker |-> FALSE, last_sample_timestamp |-> timestamp]
        /\ hmd = [packet_interval |-> PacketInterval(500, sample_rate),
                  sample_rate |-> sample_rate, tracking |-> TRUE,
                  display |-> TRUE]
        /\ registered = TRUE

RiftStarted(sample_rate) == RiftStartedAt(sample_rate, Zero32)

RiftRevents ==
    {{}, {"POLLIN"}, {"POLLHUP"}, {"POLLIN", "POLLERR"}, {"POLLNVAL"}}

ViveRevents == {{}, {"POLLIN"}, {"POLLHUP"}, {"POLLIN", "POLLERR"}}

\* What read may return on the Rift: an error, a short report, or 64 bytes
\* that are a sensor message or some other report.
RiftReports ==
    [len : {-1, 12, 64}, id : {"sensor", "other"},
     timestamp : {<<0, 1000>>, <<0, 2000>>}, num_samples : {1, 2}]

RangeReports == [gyro_range : {0, 1, 5}, accel_range : {0, 1}]

PulseReports ==
    {<<1, 65535, 2, 65535, 65535, 65535, 65535>>,
     <<5, 40, 6, 65535, 65535, 65535, 65535>>}

\* What read may return on each transport of the Vive controller: an error,
\* or a report of the expected or of another length, with the expected or
\* with another ID.
ViveReports ==
    [fd \in 0..2 |->
    IF fd = 0
    THEN [len : {-1, 52, 64}, id : {ExpectedId(0), ExpectedId(2)},
          payload : {Snapshot(3), Snapshot(5)}]
    ELSE IF fd = 1
    THEN [len : {-1, 58, 64}, id : {ExpectedId(1), ExpectedId(0)},
          payload : PulseReports]
    ELSE [len : {-1, 64, 52}, id : {ExpectedId(2), ExpectedId(1)},
          payload : [battery : {0, 1}, buttons : {0, 1}]]]

InitPoll ==
    /\ ImuFresh
    /\ RadioIdle
    /\ FlickerIdle
    /\ ViveStartIdle
    /\ session \in {"rift", "vive"}
    /\ IF session = "rift"
       THEN \E sample_rate \in SampleRates : RiftStarted(sample_rate)
       ELSE StartIdle
    /\ dev_active = TRUE
    /\ stopped = FALSE
    /\ thr_pc = "check"
    /\ rd_fd = 0
    /\ fds = <<>>
    /\ poll_ret = NotPolled
    /\ ka_sent = FALSE
    /\ count = 0
    /\ bad_since_ka = 0
    /\ last_read = NoRead
    /\ polls_after_stop = 0
    /\ imu_range = [gyro |-> 0, accel |-> 0]
    /\ buttons = 0
    /\ sensor_out = NoSensorOut
    /\ pulses_out = NoPulses
    /\ button_calls = <<>>
    /\ button_report = NoButtonReport

NextPoll ==
    \/ DeviceStop
    \/ rift_thread_check
    \/ rift_thread_poll(RiftRevents)
    \/ rift_thread_read(RiftReports)
    \/ vive_thread_check
    \/ vive_thread_poll(ViveRevents)
    \/ vive_thread_range(RangeReports)
    \/ vive_thread_read(ViveReports)

SpecPoll == InitPoll /\ [][NextPoll]_vars

\* The steps of the loop itself.  The loop's thread is scheduled, and each
\* call it blocks in returns: poll after a second at the latest.
LoopStep ==
    \/ rift_thread_check
    \/ rift_thread_poll(RiftRevents)
    \/ rift_thread_read(RiftReports)
    \/ vive_thread_check
    \/ vive_thread_poll(ViveRevents)
    \/ vive_thread_range(RangeReports)
    \/ vive_thread_read(ViveReports)

SpecPollFair == InitPoll /\ [][NextPoll]_vars /\ WF_vars(LoopStep)

-----------------------------------------------------------------------------
(***************************************************************************)
(* SpecSensor: the poll loop of a Rift whose 32-bit microsecond clock is   *)
(* about to wrap.  The headset stamps every sensor report with its clock,  *)
(* which has advanced since the report before.                             *)
(***************************************************************************)

\* The timestamp of the last report before the model takes over: 1000 us
\* before the clock wraps.
NearWrap == <<U16 - 1, U16 - 1000>>

\* How far past the wrap the clock is followed.
MaxTick == 2000

\* The microseconds between two sensor reports.
TickSteps == {1000, 2000}

\* The clock has not passed MaxTick after its wrap.
ClockFollowed(t) == t[1] = U16 - 1 \/ (t[1] = 0 /\ t[2] < MaxTick)

\* What read may return: an error, or a sensor message stamped with the
\* advanced clock and declaring any number of samples.
SensorReports ==
    [len : {-1}, id : {"sensor"}, timestamp : {priv.last_sample_timestamp},
     num_samples : {0}]
    \cup (IF ClockFollowed(priv.last_sample_timestamp)
          THEN [len : {64}, id : {"sensor"},
                timestamp : {Add32(priv.last_sample_timestamp, d) :
                                d \in TickSteps},
                num_samples : {0, 1, 2, 3, U8 - 1}]
          ELSE {})

InitSensor ==
    /\ ImuFresh
    /\ RadioIdle
    /\ FlickerIdle
    /\ ViveStartIdle
    /\ session = "rift"
    /\ \E sample_rate \in SampleRates : RiftStartedAt(sample_rate, NearWrap)
    /\ dev_active = TRUE
    /\ stopped = FALSE
    /\ thr_pc = "check"
    /\ rd_fd = 0
    /\ fds = <<>>
    /\ poll_ret = NotPolled
    /\ ka_sent = FALSE
    /\ count = 0
    /\ bad_since_ka = 0
    /\ last_read = NoRead
    /\ polls_after_stop = 0
    /\ imu_range = [gyro |-> 0, accel |-> 0]
    /\ buttons = 0
    /\ sensor_out = NoSensorOut
    /\ pulses_out = NoPulses
    /\ button_calls = <<>>
    /\ button_report = NoButtonReport

NextSensor ==
    \/ DeviceStop
    \/ rift_thread_check
    \/ rift_thread_poll(RiftRevents)
    \/ rift_thread_read(SensorReports)

SpecSensor == InitSensor /\ [][NextSensor]_vars

-----------------------------------------------------------------------------
(***************************************************************************)
(* SpecRadio: the radio router handling a stream of messages, with control *)
(* channel transfers that may fail, report an error, or be busy.           *)
(***************************************************************************)

RadioMessages ==
    [id : {"RIFT_RADIO_MESSAGE_ID", "other"},
     device_type : Targets \cup {"unknown"},
     rest_zero : BOOLEAN,
     buttons : {0, 1},
     adc_channel : {"RIFT_TOUCH_CONTROLLER_ADC_A_X",
                    "RIFT_TOUCH_CONTROLLER_ADC_TRIGGER", "other"},
     adc_value : {7}]

\* The first byte of the control report read back: idle, error, busy, and
\* busy with the error bit.
ControlStatus == {0, 8, 128, 136}

RadioData == [serial : {"WMTD3"}, date : {"Nov 11 2016"}, version : {"1.9.0"}]

InitRadio ==
    /\ ImuFresh
    /\ StartIdle
    /\ PollIdle
    /\ RadioIdle
    /\ FlickerIdle
    /\ ViveStartIdle

NextRadio ==
    \/ rift_decode_radio_message(RadioMessages)
    \/ rift_radio_transfer_send
    \/ rift_radio_transfer_poll(ControlStatus)
    \/ rift_radio_read_data(RadioData)

SpecRadio == InitRadio /\ [][NextRadio]_vars

-----------------------------------------------------------------------------
(***************************************************************************)
(* SpecViveStart: a Vive controller session from its start to the end of   *)
(* its poll loop.                                                          *)
(***************************************************************************)
InitViveStart ==
    /\ ImuFresh
    /\ StartIdle
    /\ PollIdle
    /\ RadioIdle
    /\ FlickerIdle
    /\ ViveStartIdle

NextViveStart ==
    \/ vive_controller_usb_start_firmware
    \/ vive_controller_usb_start_config
    \/ ouvrt_device_start
    \/ DeviceStop
    \/ vive_thread_check
    \/ vive_thread_poll(ViveRevents)
    \/ vive_thread_range(RangeReports)
    \/ vive_thread_read(ViveReports)

SpecViveStart == InitViveStart /\ [][NextViveStart]_vars

-----------------------------------------------------------------------------
(***************************************************************************)
(* SpecFlicker: two Rift sessions whose flicker setting is changed while   *)
(* they are switched active and inactive.                                  *)
(***************************************************************************)
InitFlicker ==
    /\ ImuFresh
    /\ StartIdle
    /\ PollIdle
    /\ RadioIdle
    /\ ViveStartIdle
    /\ FlickerIdle

NextFlicker ==
    \/ RiftSetActive
    \/ ouvrt_rift_set_flicker

SpecFlicker == InitFlicker /\ [][NextFlicker]_vars

-----------------------------------------------------------------------------
(***************************************************************************)
(* SpecPulse: vive_controller_decode_pulse_report on pulse reports whose   *)
(* seven slots hold a sensor id, the marker of an empty slot, or an id     *)
(* that is out of range.                                                   *)
(***************************************************************************)

\* Sensor ids: the lowest and the highest handled, the first out of range,
\* and 0xffff for an empty slot.
PulseIds == {0, 31, 32, U16 - 1}

AllPulseReports == [1..7 -> PulseIds]

InitPulse ==
    /\ ImuFresh
    /\ StartIdle
    /\ PollIdle
    /\ RadioIdle
    /\ FlickerIdle
    /\ ViveStartIdle

\* The one pulse report of an iteration of the loop.
PulseMessage ==
    /\ pulses_out = NoPulses
    /\ \E ids \in AllPulseReports : vive_controller_decode_pulse_report(ids)
    /\ UNCHANGED <<session, dev_active, stopped, thr_pc, rd_fd, fds, poll_ret,
                   ka_sent, count, bad_since_ka, last_read, polls_after_stop,
                   imu_range, buttons, sensor_out, button_calls,
                   button_report>>
    /\ UNCHANGED <<imuVars, startVars, radioVars, viveStartVars, flickerVars>>

NextPulse == PulseMessage

SpecPulse == InitPulse /\ [][NextPulse]_vars

-----------------------------------------------------------------------------
(***************************************************************************)
(* SpecButtons: vive_controller_decode_button_message on a stream of       *)
(* button reports, from the controller as ouvrt_vive_controller_usb_init   *)
(* leaves it, and the events ouvrt_handle_buttons makes of its calls.      *)
(***************************************************************************)

\* The bits of vive_controller_usb_button_map, in the order of the map:
\* trigger, grip, menu, system, thumb, touch.  The header that gives the
\* bits their values is not part of the sources; six distinct bits stand
\* for them.
ButtonMap == <<1, 2, 4, 8, 16, 32>>

RECURSIVE EdgeEvents(_, _, _)
\* ouvrt_handle_buttons(id, new, old, 6, map): for each entry of the map
\* whose bit differs between old and new, from entry i on, a press or a
\* release.
EdgeEvents(new, old, i) ==
    IF i > Len(ButtonMap) THEN <<>>
    ELSE IF BitAnd(new, ButtonMap[i]) # BitAnd(old, ButtonMap[i])
    THEN <<[button |-> i, press |-> BitAnd(new, ButtonMap[i]) # 0]>>
            \o EdgeEvents(new, old, i + 1)
    ELSE EdgeEvents(new, old, i + 1)

ouvrt_handle_buttons(new, old) == EdgeEvents(new, old, 1)

\* How many calls of ouvrt_handle_buttons a stream is followed for.
MaxCalls == 3

\* Button reports: no button, one mapped bit, two mapped bits, the last
\* mapped bit, a bit that is not in the map, alone and with a mapped one;
\* each with and without a battery reading.
ButtonReports == [battery : {0, 1}, buttons : {0, 1, 2, 3, 32, 64, 65}]

InitButtons ==
    /\ ImuFresh
    /\ StartIdle
    /\ PollIdle
    /\ RadioIdle
    /\ FlickerIdle
    /\ ViveStartIdle

ButtonMessage ==
    /\ Len(button_calls) < MaxCalls
    /\ \E r \in ButtonReports : vive_controller_decode_button_message(r)
    /\ UNCHANGED <<session, dev_active, stopped, thr_pc, rd_fd, fds, poll_ret,
                   ka_sent, count, bad_since_ka, last_read, polls_after_stop,
                   imu_range, sensor_out, pulses_out>>
    /\ UNCHANGED <<imuVars, startVars, radioVars, viveStartVars, flickerVars>>

NextButtons == ButtonMessage

SpecButtons == InitButtons /\ [][NextButtons]_vars

-----------------------------------------------------------------------------
(***************************************************************************)
(* Properties of the sequence reconciler and the timestamp unwrapper.      *)
(***************************************************************************)

\* The sequence numbers a session whose last sequence number is L takes as
\* already seen.
SeenWindow(L) == {L, SubU8(L, 1), SubU8(L, 2)}

SeqsOf(out) == [i \in 1..Len(out) |-> out[i].seq]

\* The three sequence numbers of a report in increasing order (mod 256).
InSequenceOrder(rep) ==
    LET seqs == {rep[k].seq : k \in 1..3}
        base == CHOOSE s \in seqs : seqs = {s, AddU8(s, 1), AddU8(s, 2)}
    IN  <<base, AddU8(base, 1), AddU8(base, 2)>>

NotSeen(rep, L) ==
    LET Fresh(x) == x \notin SeenWindow(L)
    IN  SelectSeq(InSequenceOrder(rep), Fresh)

\* C1: a decode of a round-robin rotation of three consecutive sequence
\* numbers, by a session whose last sequence number is L, handles exactly
\* the samples whose sequence number is not L, L-1 or L-2, each once and in
\* increasing sequence order, and leaves the sequence number of the last
\* one handled in the session (L if there was none).
C1_ReconcileRotation ==
    decoded =>
        /\ SeqsOf(delivered) = NotSeen(report, entry_seq)
        /\ imu.sequence = IF delivered = <<>> THEN entry_seq
                          ELSE delivered[Len(delivered)].seq

\* C1 witness: the report (1, 255, 0) decoded by a session at 255: sample
\* 255 is skipped, samples 0 and 1 are handled in that order.
C1_Witness ==
    /\ decoded
    /\ entry_seq = 255
    /\ report[1].seq = 1 /\ report[2].seq = 255 /\ report[3].seq = 0
    /\ SeqsOf(delivered) = <<0, 1>>
    /\ imu.sequence = 1

\* C2: over a session's reports, every sample handled has a higher
\* production index than every sample handled before it: no sample is
\* handled twice, and samples are handled in the order they were produced.
C2_AtMostOnceInOrder ==
    \A i \in 1..Len(delivered) :
        delivered[i].n > (IF i = 1 THEN prev_max_n ELSE delivered[i - 1].n)

\* C2 witness: after the sequence counter wrapped, a repeated snapshot whose
\* samples were all handled before: nothing is handled again.
C2_Witness ==
    /\ decoded
    /\ produced > U8
    /\ prev_max_n = produced
    /\ delivered = <<>>

\* C3: over the samples a session handles, the time base never decreases,
\* its low 32 bits are the tick of the sample handled last, and its upper
\* 32 bits go up by one exactly when the tick is below the previous low 32
\* bits and keep their value otherwise.
C3_TimeBaseUnwrap ==
    /\ \A i \in 1..Len(delivered) :
          LET before == IF i = 1 THEN entry_time ELSE delivered[i - 1].raw_time
              after  == delivered[i].raw_time
              tick   == delivered[i].time
          IN  /\ Le64(before, after)
              /\ after.lo = tick
              /\ after.hi = IF Lt32(tick, before.lo) THEN before.hi + 1
                            ELSE before.hi
    /\ imu.time = IF delivered = <<>> THEN entry_time
                  ELSE delivered[Len(delivered)].raw_time

-----------------------------------------------------------------------------
(***************************************************************************)
(* Properties of the blink pattern decoder and of rift_start.              *)
(***************************************************************************)

\* The 10-bit sequence whose bit i is 1 iff the 2-bit value i is 3.
RECURSIVE BrightBits(_, _)
BrightBits(lo, k) ==
    IF k = 0 THEN 0
    ELSE (IF lo % 4 = 3 THEN 1 ELSE 0) + 2 * BrightBits(lo \div 4, k - 1)

WellFormedPattern(pattern) ==
    /\ pattern.hi = 0
    /\ \A i \in 0..9 : Symbol(pattern.lo, i) \in {1, 3}

InRange(ll, capacity) == ll.num <= capacity /\ ll.rec.index < ll.num

\* C4: for a record whose packed word is made of ten 2-bit values 1 or 3
\* (and nothing else) a pattern is stored, and the pattern stored has bit i
\* set iff value i is 3; packing the stored pattern again gives the word
\* back.
C4_PatternDecode ==
    (/\ led_last.seen
     /\ led_last.rec.pattern_length = 10
     /\ WellFormedPattern(led_last.rec.pattern)
     /\ InRange(led_last, MAX_LEDS))
    => /\ led_last.rec.index \in leds.pat_written
       /\ leds.patterns[led_last.rec.index]
            = BrightBits(led_last.rec.pattern.lo, 10)
       /\ Packed(leds.patterns[led_last.rec.index]) = led_last.rec.pattern

\* C4 witness: the packed form of 0101010101b was read as the only record
\* of the table and 341 is stored for it.
C4_Witness ==
    /\ led_last.seen
    /\ led_last.rec.pattern = Packed(341)
    /\ led_last.rec.index = 0
    /\ leds.patterns[0] = 341
    /\ start_pc = "config"

MalformedRecord(rec) ==
    \/ rec.pattern_length # 10
    \/ ~WellFormedPattern(rec.pattern)

\* C5: a record whose declared length is not 10, or whose packed word has a
\* 2-bit value other than 1 and 3 or a bit above bit 19, makes rift_start
\* return an error: nothing is stored for the record, tracking illumination
\* is not enabled and the LEDs are not registered.
C5_MalformedRejected ==
    (led_last.seen /\ MalformedRecord(led_last.rec))
    => /\ start_pc = "failed"
       /\ leds = led_last.before
       /\ ~hmd.tracking
       /\ ~registered

\* C5 witness: a record of length 10, in range, with bit 31 of its packed
\* word set was read after a record that was stored; start failed.
C5_Witness ==
    /\ led_last.seen
    /\ led_last.rec.pattern_length = 10
    /\ led_last.rec.pattern.hi = 2048
    /\ InRange(led_last, MAX_LEDS)
    /\ leds.pat_written # {}
    /\ start_pc = "failed"

-----------------------------------------------------------------------------
(***************************************************************************)
(* Properties of the poll loops.                                           *)
(***************************************************************************)

\* The report read last is not one the loop is there for: its length is not
\* the fixed size of the expected report, or its first byte is not the
\* expected report ID (a failed read delivers no report at all).
UnexpectedReport ==
    IF session = "rift"
    THEN last_read.len # 64 \/ last_read.id # "sensor"
    ELSE \/ last_read.len # ExpectedLen(last_read.fd)
         \/ last_read.id # ExpectedId(last_read.fd)

\* C6: in both poll loops, a report of unexpected length or with an
\* unexpected report ID is not passed to a decoder: the session state
\* (time base, last sequence, last timestamp, buttons, keepalive counter)
\* is what it was before the read, and the loop goes on.
C6_UnexpectedReportIgnored ==
    (last_read.seen /\ UnexpectedReport) =>
        /\ ~last_read.decoded
        /\ SessionState = last_read.before
        /\ thr_pc # "done"

\* The last poll reported POLLERR, POLLHUP or POLLNVAL on a transport.
FatalReported == \E k \in DOMAIN fds : fds[k].revents \cap FatalFlags # {}

\* C7: in both poll loops, when the wait reports POLLERR, POLLHUP or
\* POLLNVAL on any transport of the session, the loop exits in that
\* iteration: it neither reads nor goes back to wait.
C7_FatalConditionExits == FatalReported => thr_pc = "done"

\* C8: in rift_thread a keepalive follows every poll timeout, and at most
\* 9 * report_rate + 1 reports (valid, too short, or failing to read)
\* arrive between two keepalives.
C8_KeepaliveBound ==
    session = "rift" =>
        /\ (poll_ret.seen /\ poll_ret.ret = 0) => ka_sent
        /\ count + bad_since_ka <= 9 * priv.report_rate + 1

\* C9: once the owner has cleared dev->active, a poll loop waits at most
\* once more, and it ends: every path through its body leads back to the
\* test of dev->active.
C9_Cancellation ==
    /\ [](polls_after_stop <= 1)
    /\ stopped ~> (thr_pc = "done")

\* The owner cleared dev->active after the test, the Vive loop waited once
\* more, and ended.
C9_Witness ==
    /\ session = "vive"
    /\ stopped
    /\ polls_after_stop = 1
    /\ thr_pc = "done"

-----------------------------------------------------------------------------
(***************************************************************************)
(* Properties of the radio router.                                         *)
(***************************************************************************)

\* Both a and b were done for the message, a before b.
Precedes(events, a, b) ==
    \E i, j \in DOMAIN events : i < j /\ events[i] = a /\ events[j] = b

\* C10: when the payload of a message for the remote or for a touch
\* controller that was not active is decoded, the serial number was queried
\* before, and (unless that query failed) the firmware version was queried
\* after the serial number and before the decode.
C10_ActivationBeforeDecode ==
    LET events == radio_trace.events
    IN  ( /\ radio_trace.target \in Targets
          /\ ~radio_trace.was_active
          /\ \E i \in DOMAIN events : events[i] = "decode" ) =>
            /\ Precedes(events, "serial", "decode")
            /\ (\A i \in DOMAIN events : events[i] # "serial failed") =>
                    /\ Precedes(events, "serial", "firmware")
                    /\ Precedes(events, "firmware", "decode")

\* The touch controller a message is for.
TouchOf(target) == IF target = "RIFT_TOUCH_CONTROLLER_LEFT" THEN 0 ELSE 1

TouchTargets == {"RIFT_TOUCH_CONTROLLER_LEFT", "RIFT_TOUCH_CONTROLLER_RIGHT"}

Has(events, e) == \E i \in DOMAIN events : events[i] = e

\* The capacitive value the message carries is the one the controller holds.
Latched(touch, m) ==
    /\ m.adc_channel = "RIFT_TOUCH_CONTROLLER_ADC_A_X" =>
            touch.cap_a_x = m.adc_value
    /\ m.adc_channel = "RIFT_TOUCH_CONTROLLER_ADC_B_Y" =>
            touch.cap_b_y = m.adc_value
    /\ m.adc_channel = "RIFT_TOUCH_CONTROLLER_ADC_REST" =>
            touch.cap_rest = m.adc_value
    /\ m.adc_channel = "RIFT_TOUCH_CONTROLLER_ADC_STICK" =>
            touch.cap_stick = m.adc_value
    /\ m.adc_channel = "RIFT_TOUCH_CONTROLLER_ADC_TRIGGER" =>
            touch.cap_trigger = m.adc_value

\* C11: when the serial number query or the firmware version query of an
\* activation fails, the touch controller stays inactive and the payload of
\* the message is decoded into its state all the same; and every message
\* for a touch controller that is not active starts with the serial number
\* query again.
C11_ActivationFailureLocal ==
    LET events == radio_trace.events
        k == TouchOf(radio_trace.target)
    IN  /\ (Has(events, "serial failed") \/ Has(events, "firmware failed")) =>
            /\ radio_pc = "idle"
            /\ ~radio.touch[k].base.active
            /\ events[Len(events)] = "decode"
            /\ Latched(radio.touch[k], radio_trace.msg)
        /\ (radio_trace.target \in TouchTargets /\ ~radio_trace.was_active) =>
            /\ events # <<>>
            /\ events[1] = "serial"

\* A first activation of the left touch controller got its serial number
\* and failed after it; the next message for it started with the serial
\* number query again, which failed, and its payload was decoded.
C11_Witness ==
    /\ radio_trace.target = "RIFT_TOUCH_CONTROLLER_LEFT"
    /\ radio.touch[0].base.serial # ""
    /\ ~radio.touch[0].base.active
    /\ radio_trace.events = <<"serial", "serial failed", "decode">>
    /\ radio_trace.msg.adc_channel = "RIFT_TOUCH_CONTROLLER_ADC_TRIGGER"
    /\ radio.touch[0].cap_trigger = 7

\* The message is one the router drops: a message for no known device, or
\* one whose id is not that of a radio message (a heartbeat when all the
\* bytes after the first are zero).
Dropped(m) ==
    \/ m.id # "RIFT_RADIO_MESSAGE_ID"
    \/ m.device_type \notin Targets

\* C12: the router's handling of a message it drops leaves the remote and
\* both touch controllers as they were (buttons, capacitive values,
\* activation flags, serial and firmware strings) and issues no query on
\* the control channel.
C12_DropIsSideEffectFree ==
    [][(radio_pc = "idle" /\ Dropped(radio_trace'.msg)) =>
            /\ radio' = radio
            /\ radio_pc' = "idle"
            /\ ~Has(radio_trace'.events, "serial")
            /\ ~Has(radio_trace'.events, "firmware")]_vars

\* A message for an unknown device was dropped by a router that holds an
\* active left touch controller, latched values and a pressed button.
C12_Witness ==
    /\ radio_trace.msg.id = "RIFT_RADIO_MESSAGE_ID"
    /\ radio_trace.msg.device_type = "unknown"
    /\ radio_trace.events = <<"unknown device">>
    /\ radio.touch[0].base.active
    /\ radio.touch[0].cap_a_x = 7
    /\ ~radio.touch[1].base.active
    /\ radio.remote.buttons = 1

-----------------------------------------------------------------------------
(***************************************************************************)
(* Properties of the button decode.                                        *)
(***************************************************************************)

\* The report is a battery reading: battery set, no button bit.
BatteryHeartbeat(r) == r.battery # 0 /\ r.buttons = 0

\* What a decode of the report r does when it passes r.buttons on: one call
\* of ouvrt_handle_buttons with (new, previous), then new is stored; and
\* from no button to exactly one mapped bit the call makes one press event
\* of that button.
PassedOn(r) ==
    /\ button_calls' =
            Append(button_calls, [new |-> r.buttons, old |-> buttons])
    /\ buttons' = r.buttons
    /\ \A i \in DOMAIN ButtonMap :
            (buttons = 0 /\ r.buttons = ButtonMap[i]) =>
                ouvrt_handle_buttons(r.buttons, buttons) =
                    <<[button |-> i, press |-> TRUE]>>

\* C13 as stated: a report with the stored bitmask makes no call and leaves
\* the bitmask; a report with a different bitmask makes exactly one call of
\* the edge detector with (new, previous) and then stores new.
C13_DifferentBitmaskAlwaysPassedOn ==
    [][LET r == button_report'
       IN  /\ r.buttons = buttons =>
                UNCHANGED <<buttons, button_calls>>
           /\ r.buttons # buttons => PassedOn(r)]_vars

\* C13, for the reports that are not battery readings: a report with the
\* stored bitmask makes no call of ouvrt_handle_buttons and leaves the
\* bitmask; a report with a different bitmask makes exactly one call with
\* (new, previous) over the map and then stores new, so that from no
\* button to one mapped bit there is exactly one press event, and none
\* when the same bitmask is decoded again.
C13_ButtonUpdate ==
    [][LET r == button_report'
       IN  /\ r.buttons = buttons =>
                UNCHANGED <<buttons, button_calls>>
           /\ (r.buttons # buttons /\ ~BatteryHeartbeat(r)) =>
                PassedOn(r)]_vars

\* From no button the trigger bit was decoded: one call, one press event.
\* The same report decoded again would add no call (MaxCalls calls end the
\* stream, and this state has one).
C13_Witness ==
    /\ session = "none"
    /\ button_report = [battery |-> 0, buttons |-> 1]
    /\ buttons = 1
    /\ button_calls = <<[new |-> 1, old |-> 0]>>
    /\ ouvrt_handle_buttons(1, 0) = <<[button |-> 1, press |-> TRUE]>>

\* C14: a report with a battery reading and no button bit makes no call of
\* ouvrt_handle_buttons, so no event, and leaves the stored bitmask,
\* whatever buttons it holds.
C14_BatteryHeartbeat ==
    [][BatteryHeartbeat(button_report') =>
            UNCHANGED <<buttons, button_calls>>]_vars

\* A battery reading was decoded while two buttons were held.
C14_Witness ==
    /\ session = "none"
    /\ button_report = [battery |-> 1, buttons |-> 0]
    /\ buttons = 3
    /\ button_calls = <<[new |-> 3, old |-> 0]>>

-----------------------------------------------------------------------------
(***************************************************************************)
(* Properties of rift_start.                                               *)
(***************************************************************************)

\* C15: once rift_set_report_rate has written a configuration for a headset
\* that reports sample rate s, the report rate the session stores is at
\* least 5 and at most s, and the packet interval written is
\* s / rate - 1, a value that fits its 8 bits.
C15_RateClamp ==
    hmd.sample_rate # -1 =>
        /\ 5 <= priv.report_rate
        /\ priv.report_rate <= hmd.sample_rate
        /\ hmd.packet_interval = (hmd.sample_rate \div priv.report_rate) - 1

\* The steps of rift_start, in the order of its source.
StartOrder ==
    <<"open", "positions", "patterns", "config", "rate", "tracking",
      "display", "register">>

IsPrefix(s, t) ==
    /\ Len(s) <= Len(t)
    /\ \A i \in 1..Len(s) : s[i] = t[i]

\* Every step before the registration has left its result behind.
EarlierStepsSucceeded ==
    /\ fd_open
    /\ reads >= 1
    /\ led_last.seen
    /\ hmd.sample_rate # -1
    /\ hmd.tracking
    /\ hmd.display

StartOrdered ==
    /\ IsPrefix(start_log, StartOrder)
    /\ registered <=> start_pc = "started"
    /\ registered <=> start_log = StartOrder
    /\ registered => EarlierStepsSucceeded
    /\ start_pc = "failed" => ~registered

\* C16: rift_start enters its steps in the order positions, LED patterns,
\* config, report rate, tracking, display, registration; the geometry is
\* registered exactly when rift_start has returned 0, and then every earlier
\* step has succeeded; once rift_start has returned an error no later step
\* runs and nothing is registered.
C16_StartOrdering ==
    /\ []StartOrdered
    /\ [][start_pc = "failed" =>
            UNCHANGED <<start_log, hmd, priv, leds, reads, registered>>]_vars

\* C16 witnesses: a start that went through all steps, and (below) one that
\* was cut short by a failed step.
C16_Witness ==
    /\ start_pc = "started"
    /\ registered
    /\ start_log = StartOrder

C16_FailedWitness ==
    /\ start_pc = "failed"
    /\ Len(start_log) = 6
    /\ ~registered

-----------------------------------------------------------------------------
(***************************************************************************)
(* Properties of vive_controller_usb_start.                                *)
(***************************************************************************)

\* C17: vive_controller_usb_start returns 0 only if the firmware version was
\* read and the configuration was downloaded and parsed; the session is
\* active only after such a start.
C17_StartNeedsBothReads ==
    /\ vive_start_ret = "ok" => (vive_firmware = "ok" /\ vive_config = "ok")
    /\ (session = "vive" /\ vive_start_pc # "idle") =>
           (vive_firmware = "ok" /\ vive_config = "ok")

-----------------------------------------------------------------------------
(***************************************************************************)
(* Properties of rift_get_positions.                                       *)
(***************************************************************************)

\* A position report was read, so the declared count is known.
PositionSeen == pos_last.num # -1

\* The report read last declares too many positions or carries an index
\* outside the declared count.
PositionOutOfRange ==
    \/ pos_last.num > MAX_POSITIONS
    \/ pos_last.index >= pos_last.num

\* Out-of-range reports are rejected, and every index written is below the
\* declared count, which is at most MAX_POSITIONS.
PositionsChecked ==
    /\ (PositionOutOfRange /\ pos_last.ret # "read_failed") =>
           (pos_last.ret = "rejected" /\ start_pc = "failed")
    /\ pos_last.ret \in {"more", "done"} =>
           (pos_last.index < pos_last.num /\ pos_last.num <= MAX_POSITIONS)
    /\ \A i \in leds.pos_written :
           i < pos_last.num /\ pos_last.num <= MAX_POSITIONS
    /\ pos_last.ret = "done" => pos_last.reads = pos_last.num

\* C18 as stated: out-of-range position reports make rift_get_positions
\* return an error, every index written is < count <= MAX_POSITIONS, and
\* rift_get_positions issues at most count reads, exactly count on success.
C18_PositionsBoundedByCount ==
    PositionSeen =>
        /\ PositionsChecked
        /\ pos_last.reads <= pos_last.num

\* C18 amended: the same, with at most count reads or, when the declared
\* count is 0, the one read that delivered that count.
C18_PositionsBounded ==
    PositionSeen =>
        /\ PositionsChecked
        /\ pos_last.reads <= (IF pos_last.num = 0 THEN 1 ELSE pos_last.num)

\* C18 witness: a table of MAX_POSITIONS positions read to its end, the
\* last record written at the highest index.
C18_Witness ==
    /\ pos_last.ret = "done"
    /\ pos_last.num = MAX_POSITIONS
    /\ pos_last.reads = MAX_POSITIONS
    /\ pos_last.index = MAX_POSITIONS - 1
    /\ pos_last.type = 0
    /\ (MAX_POSITIONS - 1) \in leds.pos_written

-----------------------------------------------------------------------------
(***************************************************************************)
(* Properties of the Rift sessions of one process.                         *)
(***************************************************************************)

\* C19: no operation on a Rift session writes state that is shared with
\* another session or with code outside the sessions: the one variable of
\* rift.c outside the session objects, rift_flicker, is never written.
C19_SessionIsolation ==
    [][rift_flicker' = rift_flicker]_vars

-----------------------------------------------------------------------------
(***************************************************************************)
(* Properties of rift_radio_transfer.                                      *)
(***************************************************************************)

\* C20: rift_radio_transfer ends after a bounded number of reads of the
\* control report, whatever the device answers: the reads of one transfer
\* that find the busy bit set stay below the bound MaxBusy.
C20_TransferBounded ==
    radio_query.busy_reads < MaxBusy

-----------------------------------------------------------------------------
(***************************************************************************)
(* Properties of the iteration of vive_controller_usb_thread.              *)
(***************************************************************************)

\* The transports the poll of this iteration found readable, in the order
\* IMU (0), Lighthouse (1), button (2).
RECURSIVE ReadableFrom(_)
ReadableFrom(k) ==
    IF k > 2 THEN <<>>
    ELSE (IF "POLLIN" \in fds[k + 1].revents THEN <<k>> ELSE <<>>)
             \o ReadableFrom(k + 1)

\* An iteration of the Vive loop whose poll found a transport readable is
\* over: the loop is about to wait again.
ViveIterationOver ==
    /\ session = "vive"
    /\ thr_pc = "check"
    /\ poll_ret.seen
    /\ poll_ret.ret > 0
    /\ ReadableFrom(0) # <<>>

\* C21: when an iteration of vive_controller_usb_thread whose poll found a
\* transport readable is over, every readable transport was read exactly
\* once, in the order IMU, Lighthouse, button, whether or not a read or the
\* query of the range modes failed.
C21_EveryReadableTransportRead ==
    ViveIterationOver => last_read.order = ReadableFrom(0)

-----------------------------------------------------------------------------
(***************************************************************************)
(* Properties of the reconciler on reordered slots.                        *)
(***************************************************************************)

\* C22: for every assignment of three consecutive sequence numbers to the
\* slots, a decode handles the samples not seen yet in increasing sequence
\* order and leaves the newest of the three sequence numbers in the
\* session, so that a second decode of the report handles nothing.
C22_ReorderRobust ==
    decoded =>
        /\ SeqsOf(delivered) = NotSeen(report, entry_seq)
        /\ imu.sequence = InSequenceOrder(report)[3]

-----------------------------------------------------------------------------
(***************************************************************************)
(* Properties of rift_decode_sensor_message.                               *)
(***************************************************************************)

\* A sensor report was decoded in this iteration and samples were handed on.
SensorDecoded ==
    /\ session = "rift"
    /\ last_read.seen
    /\ last_read.decoded
    /\ sensor_out.n > 0

\* C23: the time attached to the samples of a sensor report is not below
\* the time attached to the samples of the report before it, also when the
\* 32-bit clock of the headset has wrapped between the two.
C23_SampleTimeNonDecreasing ==
    SensorDecoded =>
        Le32(last_read.before.last_sample_timestamp, sensor_out.time)

\* C27: a sensor report that declares num_samples samples hands on exactly
\* min(num_samples, 2) samples, from the slots 0 .. min(num_samples, 2) - 1
\* in order; a report that declares no sample hands on none.
C27_SampleCount ==
    (session = "rift" /\ last_read.seen /\ last_read.decoded) =>
        LET m == IF sensor_out.declared > 2 THEN 2 ELSE sensor_out.declared
        IN  /\ sensor_out.n = m
            /\ sensor_out.slots = [i \in 1..m |-> i - 1]

-----------------------------------------------------------------------------
(***************************************************************************)
(* Properties of vive_controller_decode_pulse_report.                      *)
(***************************************************************************)

\* The sensor ids of a report that are in 0..31, in slot order.
InRangeIds(ids) ==
    LET Handled(x) == x <= 31
    IN  SelectSeq(ids, Handled)

\* C24: of the seven slots of a pulse report, exactly those whose sensor id
\* is in 0..31 are handed to the watchman, in slot order; empty slots
\* (0xffff) and slots with another id above 31 are left out, and no id
\* above 31 is handed on.
C24_PulseFilter ==
    /\ pulses_out.out = InRangeIds(pulses_out.report)
    /\ \A i \in 1..Len(pulses_out.out) : pulses_out.out[i] <= 31

-----------------------------------------------------------------------------
(***************************************************************************)
(* Properties of the activation flags.                                     *)
(***************************************************************************)

\* The activation flag of touch controller k.
Active(r, k) == r.touch[k].base.active

\* C25: the activation flag of a sub-device becomes true only at the end of
\* one activation attempt whose serial number query and firmware version
\* query both succeeded; once true it stays true, and no serial number or
\* firmware version query is issued for that sub-device any more.
C25_OneShotActivation ==
    /\ [](/\ ~radio.remote.base.active
          /\ \A k \in {0, 1} :
                Active(radio, k) =>
                    ~(radio_query.kind # "none" /\ radio_query.touch = k))
    /\ [][\A k \in {0, 1} :
            /\ Active(radio, k) => Active(radio', k)
            /\ (~Active(radio, k) /\ Active(radio', k)) =>
                    /\ radio_pc = "data"
                    /\ radio_query.touch = k
                    /\ radio_query.kind = "firmware"
                    /\ radio_trace'.target \in TouchTargets
                    /\ TouchOf(radio_trace'.target) = k
                    /\ radio_trace'.events = <<"serial", "firmware", "decode">>
            /\ ( /\ Active(radio, k)
                 /\ radio_trace'.target \in TouchTargets
                 /\ TouchOf(radio_trace'.target) = k ) =>
                    /\ ~Has(radio_trace'.events, "serial")
                    /\ ~Has(radio_trace'.events, "firmware")]_vars

\* C25 witness: the left touch controller is active, and a later message
\* for it was decoded without a query.
C25_Witness ==
    /\ Active(radio, 0)
    /\ radio_trace.target = "RIFT_TOUCH_CONTROLLER_LEFT"
    /\ radio_trace.was_active
    /\ radio_trace.events = <<"decode">>
    /\ radio_pc = "idle"

-----------------------------------------------------------------------------
(***************************************************************************)
(* Properties of the rate bookkeeping of rift_start.                       *)
(***************************************************************************)

\* C26: whatever configuration report the headset returns, the report rate
\* by which rift_get_config and rift_set_report_rate divide 1000000 is
\* above 0: rift_start does not die in the division, and after a step that
\* stored a report rate the rate stored is positive.
C26_DivisorPositive ==
    /\ start_pc # "crashed"
    /\ start_pc \in {"rate", "tracking", "display", "started"} =>
           priv.report_rate > 0

-----------------------------------------------------------------------------
(***************************************************************************)
(* Properties of the first decode of a session.                            *)
(***************************************************************************)

\* C28: the first report a fresh session decodes has all three of its
\* samples handled, in increasing sequence order, whatever their sequence
\* numbers are.
C28_FreshSessionDeliversAll ==
    decoded =>
        /\ Len(delivered) = 3
        /\ SeqsOf(delivered) = InSequenceOrder(report)

=============================================================================
